---- MODULE Spec2Model ----
(***************************************************************************)
(* piggy-api: a portfolio-tracking API (tRPC routers and an Express REST   *)
(* surface over one Prisma database).  The state is the database's tables  *)
(* plus the last response each surface produced; there is one action per   *)
(* procedure / route handler.                                              *)
(*                                                                         *)
(* Money amounts are integers (minor units); returnPercentage, a quotient, *)
(* is kept as an exact fraction [num, den].  An optional (nullable) value  *)
(* is <<>> when absent and <<v>> when present.                             *)
(***************************************************************************)
EXTENDS Integers, Sequences, FiniteSets, TLC

VARIABLES
    users,        \* id -> user row
    exchanges,    \* id -> exchange row
    stocks,       \* id -> stock row
    priceHistory, \* set of price-history rows, unique on (stockId, date)
    watchlist,    \* id -> watchlist row
    positions,    \* id -> position row
    transactions, \* id -> transaction row
    nextId,       \* per-table count of ids handed out (ids are never reused)
    reqs,         \* in-flight position.close requests (interleaved execution)
    resp,         \* outcome of the last tRPC procedure call
    http,         \* the last REST request and the responses written for it
    closes        \* history: position id -> number of position.close calls that succeeded

vars == <<users, exchanges, stocks, priceHistory, watchlist, positions,
          transactions, nextId, reqs, resp, http, closes>>

db == <<users, exchanges, stocks, priceHistory, watchlist, positions,
        transactions, nextId>>

----------------------------------------------------------------------------
(* Bounds of the model *)

MaxUsers == 2
MaxExchanges == 1
MaxStocks == 2
MaxPositions == 2
MaxTransactions == 3
MaxWatchlist == 2
MaxRequests == 2

(* Input values *)

None == <<>>
Some(v) == <<v>>
Optional(values) == {None} \cup {Some(v) : v \in values}

UserIds == 1..MaxUsers
ExchangeIds == 1..MaxExchanges
StockIds == 1..MaxStocks
PositionIds == 1..MaxPositions
TransactionIds == 1..MaxTransactions
WatchlistIds == 1..MaxWatchlist

Emails == {"a@x.io", "b@x.io"}
Codes == {"nyse", "NYSE"}
Symbols == {"AAA"}
OpenDates == {1, 2}
CloseDates == {3}
TxDates == {2}
EntryPrices == {100}
ExitPrices == {90, 120}
Quantities == {1, 10}
BuyFeeValues == {0, 5}
SellFeeValues == {0, 3}
StopLossValues == {80}
NoteValues == {"n"}
TxPrices == {100, 120}
TargetPrices == {110}

PositionStatus == {"OPEN", "CLOSED", "PARTIAL"}
TransactionType == {"BUY", "SELL", "DIVIDEND", "SPLIT", "BONUS"}
TxTypeInputs == {"BUY", "SELL", "DIVIDEND"}

----------------------------------------------------------------------------
(* Outcomes of a tRPC procedure *)

\* `id` is the id of the row a procedure returns (0 when it returns none,
\* as the deletes do); a thrown error carries its message only
Ok(op, id) == [op |-> op, ok |-> TRUE, error |-> "", id |-> id]
Fail(op, id, msg) == [op |-> op, ok |-> FALSE, error |-> msg, id |-> 0]

\* no REST request yet
NoHttp == [route |-> "", responses |-> <<>>]

(* Prisma's error codes *)
P2002 == "P2002"   \* unique constraint failed
P2003 == "P2003"   \* foreign key constraint failed
P2025 == "P2025"   \* record to update / delete not found

Remove(f, k) == [x \in DOMAIN f \ {k} |-> f[x]]
Put(f, k, v) == [x \in DOMAIN f \cup {k} |-> IF x = k THEN v ELSE f[x]]

TransactionsOf(pid) == {t \in DOMAIN transactions : transactions[t].positionId = pid}
PositionsOfUser(uid) == {p \in DOMAIN positions : positions[p].userId = uid}
PositionsOfStock(sid) == {p \in DOMAIN positions : positions[p].stockId = sid}
StocksOfExchange(eid) == {s \in DOMAIN stocks : stocks[s].exchangeId = eid}
WatchlistOfUser(uid) == {w \in DOMAIN watchlist : watchlist[w].userId = uid}
WatchlistOfStock(sid) == {w \in DOMAIN watchlist : watchlist[w].stockId = sid}
PriceHistoryOf(sid) == {h \in priceHistory : h.stockId = sid}

----------------------------------------------------------------------------
Init ==
    /\ users = <<>>
    /\ exchanges = <<>>
    /\ stocks = <<>>
    /\ priceHistory = {}
    /\ watchlist = <<>>
    /\ positions = <<>>
    /\ transactions = <<>>
    /\ nextId = [user |-> 1, exchange |-> 1, stock |-> 1, watchlist |-> 1,
                 position |-> 1, transaction |-> 1]
    /\ reqs = <<>>
    /\ resp = Ok("init", 0)
    /\ http = NoHttp
    /\ closes = [p \in PositionIds |-> 0]

----------------------------------------------------------------------------
(* user.create / exchange.create / stock.create *)

UserCreate(email) ==
    /\ nextId.user <= MaxUsers
    /\ IF \E u \in DOMAIN users : users[u].email = email
       THEN /\ resp' = Fail("user.create", 0, P2002)
            /\ UNCHANGED db
       ELSE /\ users' = Put(users, nextId.user, [id |-> nextId.user, email |-> email, name |-> None])
            /\ nextId' = [nextId EXCEPT !.user = @ + 1]
            /\ resp' = Ok("user.create", nextId.user)
            /\ UNCHANGED <<exchanges, stocks, priceHistory, watchlist, positions, transactions>>
    /\ UNCHANGED <<reqs, http, closes>>

ExchangeCreate(code) ==
    /\ nextId.exchange <= MaxExchanges
    /\ IF \E e \in DOMAIN exchanges : exchanges[e].code = code
       THEN /\ resp' = Fail("exchange.create", 0, P2002)
            /\ UNCHANGED db
       ELSE /\ exchanges' = Put(exchanges, nextId.exchange,
                                [id |-> nextId.exchange, code |-> code, isActive |-> TRUE])
            /\ nextId' = [nextId EXCEPT !.exchange = @ + 1]
            /\ resp' = Ok("exchange.create", nextId.exchange)
            /\ UNCHANGED <<users, stocks, priceHistory, watchlist, positions, transactions>>
    /\ UNCHANGED <<reqs, http, closes>>

StockCreate(symbol, exchangeId) ==
    /\ nextId.stock <= MaxStocks
    /\ IF exchangeId \notin DOMAIN exchanges
       THEN /\ resp' = Fail("stock.create", 0, P2003)
            /\ UNCHANGED db
       ELSE /\ stocks' = Put(stocks, nextId.stock,
                             [id |-> nextId.stock, symbol |-> symbol, exchangeId |-> exchangeId])
            /\ nextId' = [nextId EXCEPT !.stock = @ + 1]
            /\ resp' = Ok("stock.create", nextId.stock)
            /\ UNCHANGED <<users, exchanges, priceHistory, watchlist, positions, transactions>>
    /\ UNCHANGED <<reqs, http, closes>>

----------------------------------------------------------------------------
(* position.create *)

CreateInputsOf(userIds, stockIds, quantities, fees) ==
    [userId : userIds, stockId : stockIds, openDate : OpenDates,
     entryPrice : EntryPrices, quantity : quantities, buyFees : fees]

CreateInputs == CreateInputsOf(UserIds, StockIds, Quantities, BuyFeeValues)

\* CreatePositionSchema: what the procedure accepts
ValidCreateInput(input) ==
    /\ input.entryPrice > 0
    /\ input.quantity > 0
    /\ input.buyFees >= 0

TotalBuyValue(input) == input.quantity * input.entryPrice

\* slip: the entry fees are left out of the capital committed
CapitalAllocated_NoFees(input) == TotalBuyValue(input)

CapitalAllocated(input) == TotalBuyValue(input) + input.buyFees

\* slip: the row starts with a realized result of 0
NewPosition_ZeroPnL(id, input) ==
    [id |-> id,
     userId |-> input.userId,
     stockId |-> input.stockId,
     openDate |-> input.openDate,
     entryPrice |-> input.entryPrice,
     quantity |-> input.quantity,
     buyFees |-> input.buyFees,
     totalBuyValue |-> TotalBuyValue(input),
     capitalAllocated |-> CapitalAllocated(input),
     status |-> "OPEN",
     closeDate |-> None,
     exitPrice |-> None,
     totalSellValue |-> None,
     sellFees |-> None,
     realizedPnL |-> Some(0),
     returnPercentage |-> None,
     stopLossPrice |-> None,
     notes |-> None]

\* the row position.create inserts
NewPosition(id, input) ==
    [id |-> id,
     userId |-> input.userId,
     stockId |-> input.stockId,
     openDate |-> input.openDate,
     entryPrice |-> input.entryPrice,
     quantity |-> input.quantity,
     buyFees |-> input.buyFees,
     totalBuyValue |-> TotalBuyValue(input),
     capitalAllocated |-> CapitalAllocated(input),
     status |-> "OPEN",
     closeDate |-> None,
     exitPrice |-> None,
     totalSellValue |-> None,
     sellFees |-> None,
     realizedPnL |-> None,
     returnPercentage |-> None,
     stopLossPrice |-> None,
     notes |-> None]

\* the initial BUY transaction position.create inserts
BuyTransaction(tid, pid, input) ==
    [id |-> tid,
     positionId |-> pid,
     type |-> "BUY",
     date |-> input.openDate,
     quantity |-> input.quantity,
     price |-> input.entryPrice,
     totalValue |-> TotalBuyValue(input),
     fees |-> input.buyFees,
     notes |-> None]

PositionCreate(input) ==
    /\ ValidCreateInput(input)
    /\ nextId.position <= MaxPositions
    /\ nextId.transaction <= MaxTransactions
    /\ IF input.userId \notin DOMAIN users \/ input.stockId \notin DOMAIN stocks
       THEN /\ resp' = Fail("position.create", 0, P2003)
            /\ UNCHANGED db
       ELSE /\ positions' = Put(positions, nextId.position, NewPosition(nextId.position, input))
            /\ transactions' = Put(transactions, nextId.transaction,
                                   BuyTransaction(nextId.transaction, nextId.position, input))
            /\ nextId' = [nextId EXCEPT !.position = @ + 1, !.transaction = @ + 1]
            /\ resp' = Ok("position.create", nextId.position)
            /\ UNCHANGED <<users, exchanges, stocks, priceHistory, watchlist>>
    /\ UNCHANGED <<reqs, http, closes>>

----------------------------------------------------------------------------
(* position.close *)

CloseInputsOf(exits, fees) ==
    [positionId : PositionIds, closeDate : CloseDates,
     exitPrice : exits, sellFees : fees]

CloseInputs == CloseInputsOf(ExitPrices, SellFeeValues)

TotalSellValue(position, input) == position.quantity * input.exitPrice

\* slip: the entry fees are not deducted
RealizedPnL_NoBuyFees(position, input) ==
    TotalSellValue(position, input) - position.totalBuyValue - input.sellFees

RealizedPnL(position, input) ==
    TotalSellValue(position, input) - position.totalBuyValue
        - position.buyFees - input.sellFees

\* (realizedPnL / capitalAllocated) * 100, as the fraction num / den
ReturnPercentage(position, input) ==
    [num |-> RealizedPnL(position, input) * 100, den |-> position.capitalAllocated]

\* slip: close recomputes the capital committed, adding the exit fees
ClosedPosition_Recomputed(stored, position, input) ==
    [stored EXCEPT
        !.status = "CLOSED",
        !.closeDate = Some(input.closeDate),
        !.exitPrice = Some(input.exitPrice),
        !.totalSellValue = Some(position.quantity * input.exitPrice),
        !.sellFees = Some(input.sellFees),
        !.realizedPnL = Some(position.quantity * input.exitPrice - position.totalBuyValue
                                 - position.buyFees - input.sellFees),
        !.returnPercentage = Some([num |-> 0, den |-> 1]),
        !.capitalAllocated = @ + input.sellFees]

\* the `data` of the position update in close, applied to the stored row;
\* the computed values come from the row `position` read earlier
ClosedPosition(stored, position, input) ==
    [stored EXCEPT
        !.status = "CLOSED",
        !.closeDate = Some(input.closeDate),
        !.exitPrice = Some(input.exitPrice),
        !.totalSellValue = Some(TotalSellValue(position, input)),
        !.sellFees = Some(input.sellFees),
        !.realizedPnL = Some(RealizedPnL(position, input)),
        !.returnPercentage = Some(ReturnPercentage(position, input))]

\* slip: the SELL transaction is dated with the opening date
SellTransaction_OpenDate(tid, position, input) ==
    [id |-> tid,
     positionId |-> input.positionId,
     type |-> "SELL",
     date |-> position.openDate,
     quantity |-> position.quantity,
     price |-> input.exitPrice,
     totalValue |-> position.quantity * input.exitPrice,
     fees |-> input.sellFees,
     notes |-> None]

\* the SELL transaction close inserts
SellTransaction(tid, position, input) ==
    [id |-> tid,
     positionId |-> input.positionId,
     type |-> "SELL",
     date |-> input.closeDate,
     quantity |-> position.quantity,
     price |-> input.exitPrice,
     totalValue |-> TotalSellValue(position, input),
     fees |-> input.sellFees,
     notes |-> None]

NotFoundMsg == "Position not found"
NotOpenMsg == "Position is not open"

\* slip: the status is not checked
CloseCheck_NoStatus(input) ==
    IF input.positionId \notin DOMAIN positions THEN NotFoundMsg ELSE ""

\* slip: a position that is not open is reported as not found
CloseCheck_SameError(input) ==
    IF input.positionId \notin DOMAIN positions THEN NotFoundMsg
    ELSE IF positions[input.positionId].status # "OPEN" THEN NotFoundMsg
    ELSE ""

\* the checks before the update: "" when the close may proceed
CloseCheck(input) ==
    IF input.positionId \notin DOMAIN positions THEN NotFoundMsg
    ELSE IF positions[input.positionId].status # "OPEN" THEN NotOpenMsg
    ELSE ""

\* the whole handler, run without another request in between
\* the return of position.close: op, ok, error and id as in Ok, and the data
Returned(op, id, data) == [op |-> op, ok |-> TRUE, error |-> "", id |-> id, data |-> data]

\* what prisma.position.update returns with include: {transactions: true}:
\* the updated row and the ids of its transactions as that call finds them,
\* which is before the SELL is inserted
UpdatedPositionWith(updated) ==
    [position |-> updated, transactions |-> TransactionsOf(updated.id)]

PositionClose(input) ==
    /\ nextId.transaction <= MaxTransactions
    /\ IF CloseCheck(input) # ""
       THEN /\ resp' = Fail("position.close", input.positionId, CloseCheck(input))
            /\ UNCHANGED <<db, closes>>
       ELSE LET position == positions[input.positionId] IN
            /\ positions' = [positions EXCEPT ![input.positionId] =
                                ClosedPosition(@, position, input)]
            /\ transactions' = Put(transactions, nextId.transaction,
                                   SellTransaction(nextId.transaction, position, input))
            /\ nextId' = [nextId EXCEPT !.transaction = @ + 1]
            /\ resp' = Returned("position.close", input.positionId,
                                UpdatedPositionWith(ClosedPosition(position, position, input)))
            /\ closes' = [closes EXCEPT ![input.positionId] = @ + 1]
            /\ UNCHANGED <<users, exchanges, stocks, priceHistory, watchlist>>
    /\ UNCHANGED <<reqs, http>>

----------------------------------------------------------------------------
(* position.close, one database call at a time: other requests may run       *)
(* between its findUnique, its position.update and its transaction.create.   *)

RequestIds == 1..MaxRequests

InFlight(input, position) ==
    [input |-> input, pc |-> "update", position |-> Some(position),
     updatedPosition |-> None, ok |-> FALSE, error |-> ""]

Finished(req, ok, error) == [req EXCEPT !.pc = "done", !.ok = ok, !.error = error]

\* findUnique, then the two checks
CloseBegin(input) ==
    LET r == Cardinality(DOMAIN reqs) + 1 IN
    /\ r <= MaxRequests
    /\ IF CloseCheck(input) # ""
       THEN /\ reqs' = Put(reqs, r, [input |-> input, pc |-> "done", position |-> None,
                                     ok |-> FALSE, error |-> CloseCheck(input)])
            /\ resp' = Fail("position.close", input.positionId, CloseCheck(input))
       ELSE /\ reqs' = Put(reqs, r, InFlight(input, positions[input.positionId]))
            /\ UNCHANGED resp
    /\ UNCHANGED <<db, http, closes>>

CloseUpdate_Guarded(r) ==
    /\ r \in DOMAIN reqs
    /\ reqs[r].pc = "update"
    /\ LET input == reqs[r].input
           position == reqs[r].position[1] IN
       IF input.positionId \notin DOMAIN positions
       THEN /\ reqs' = [reqs EXCEPT ![r] = Finished(@, FALSE, P2025)]
            /\ resp' = Fail("position.close", input.positionId, P2025)
            /\ UNCHANGED positions
       ELSE IF positions[input.positionId].status # "OPEN"
       THEN /\ reqs' = [reqs EXCEPT ![r] = Finished(@, FALSE, NotOpenMsg)]
            /\ resp' = Fail("position.close", input.positionId, NotOpenMsg)
            /\ UNCHANGED positions
       ELSE /\ positions' = [positions EXCEPT ![input.positionId] =
                                ClosedPosition(@, position, input)]
            /\ reqs' = [reqs EXCEPT
                          ![r].pc = "insert",
                          ![r].updatedPosition =
                              Some(UpdatedPositionWith(
                                  ClosedPosition(positions[input.positionId], position, input)))]
            /\ UNCHANGED resp
    /\ UNCHANGED <<users, exchanges, stocks, priceHistory, watchlist, transactions, nextId>>
    /\ UNCHANGED <<http, closes>>

\* prisma.position.update({ where: { id: positionId }, data })
CloseUpdate(r) ==
    /\ r \in DOMAIN reqs
    /\ reqs[r].pc = "update"
    /\ LET input == reqs[r].input
           position == reqs[r].position[1] IN
       IF input.positionId \notin DOMAIN positions
       THEN /\ reqs' = [reqs EXCEPT ![r] = Finished(@, FALSE, P2025)]
            /\ resp' = Fail("position.close", input.positionId, P2025)
            /\ UNCHANGED positions
       ELSE /\ positions' = [positions EXCEPT ![input.positionId] =
                                ClosedPosition(@, position, input)]
            /\ reqs' = [reqs EXCEPT
                          ![r].pc = "insert",
                          ![r].updatedPosition =
                              Some(UpdatedPositionWith(
                                  ClosedPosition(positions[input.positionId], position, input)))]
            /\ UNCHANGED resp
    /\ UNCHANGED <<users, exchanges, stocks, priceHistory, watchlist, transactions, nextId>>
    /\ UNCHANGED <<http, closes>>

\* prisma.transaction.create of the SELL, then return
CloseInsert(r) ==
    /\ r \in DOMAIN reqs
    /\ reqs[r].pc = "insert"
    /\ nextId.transaction <= MaxTransactions
    /\ LET input == reqs[r].input
           position == reqs[r].position[1] IN
       IF input.positionId \notin DOMAIN positions
       THEN /\ reqs' = [reqs EXCEPT ![r] = Finished(@, FALSE, P2003)]
            /\ resp' = Fail("position.close", input.positionId, P2003)
            /\ UNCHANGED <<transactions, nextId, closes>>
       ELSE /\ transactions' = Put(transactions, nextId.transaction,
                                   SellTransaction(nextId.transaction, position, input))
            /\ nextId' = [nextId EXCEPT !.transaction = @ + 1]
            /\ reqs' = [reqs EXCEPT ![r] = Finished(@, TRUE, "")]
            /\ resp' = Returned("position.close", input.positionId,
                                reqs[r].updatedPosition[1])
            /\ closes' = [closes EXCEPT ![input.positionId] = @ + 1]
    /\ UNCHANGED <<users, exchanges, stocks, priceHistory, watchlist, positions>>
    /\ UNCHANGED http

----------------------------------------------------------------------------
(* position.update, position.delete *)

\* the optional fields of the update input (absent = <<>>)
UpdateInputs(stopLosses, notes) ==
    [id : PositionIds,
     stopLossPrice : {None} \cup {Some(v) : v \in stopLosses},
     notes : {None} \cup {Some(v) : v \in notes}]

\* Prisma leaves a column alone when its value in `data` is undefined
Merge(old, new) == IF new = None THEN old ELSE new

\* slip: a column the input leaves out is set to null
UpdatedPosition_Overwrite(stored, input) ==
    [stored EXCEPT !.stopLossPrice = input.stopLossPrice, !.notes = input.notes]

UpdatedPosition(stored, input) ==
    [stored EXCEPT
        !.stopLossPrice = Merge(@, input.stopLossPrice),
        !.notes = Merge(@, input.notes)]

PositionUpdate(input) ==
    /\ IF input.id \notin DOMAIN positions
       THEN /\ resp' = Fail("position.update", input.id, P2025)
            /\ UNCHANGED positions
       ELSE /\ positions' = [positions EXCEPT ![input.id] = UpdatedPosition(@, input)]
            /\ resp' = Ok("position.update", input.id)
    /\ UNCHANGED <<users, exchanges, stocks, priceHistory, watchlist, transactions, nextId>>
    /\ UNCHANGED <<reqs, http, closes>>

PositionHasTransactionsMsg == "Cannot delete position with existing transactions"

\* the dependent-row check of position.delete
PositionDeleteBlocked(id) == Cardinality(TransactionsOf(id)) > 0

PositionDelete(id) ==
    /\ IF PositionDeleteBlocked(id)
       THEN /\ resp' = Fail("position.delete", id, PositionHasTransactionsMsg)
            /\ UNCHANGED positions
       ELSE IF id \notin DOMAIN positions
       THEN /\ resp' = Fail("position.delete", id, P2025)
            /\ UNCHANGED positions
       ELSE /\ positions' = Remove(positions, id)
            /\ resp' = Ok("position.delete", 0)
    /\ UNCHANGED <<users, exchanges, stocks, priceHistory, watchlist, transactions, nextId>>
    /\ UNCHANGED <<reqs, http, closes>>

----------------------------------------------------------------------------
(* transaction.create / update / delete / createBulk *)

TransactionInputs(pids, types, quantities, prices) ==
    [positionId : pids, type : types, date : TxDates,
     quantity : quantities, price : prices, fees : {0}]

\* CreateTransactionSchema
ValidTransactionInput(input) ==
    /\ input.type \in TransactionType
    /\ input.quantity > 0
    /\ input.price > 0
    /\ input.fees >= 0

\* the row transaction.create and createBulk insert for one input
NewTransaction(tid, input) ==
    [id |-> tid,
     positionId |-> input.positionId,
     type |-> input.type,
     date |-> input.date,
     quantity |-> input.quantity,
     price |-> input.price,
     totalValue |-> input.quantity * input.price,
     fees |-> input.fees,
     notes |-> None]

TransactionCreate(input) ==
    /\ ValidTransactionInput(input)
    /\ nextId.transaction <= MaxTransactions
    /\ IF input.positionId \notin DOMAIN positions
       THEN /\ resp' = Fail("transaction.create", 0, P2003)
            /\ UNCHANGED <<transactions, nextId>>
       ELSE /\ transactions' = Put(transactions, nextId.transaction,
                                   NewTransaction(nextId.transaction, input))
            /\ nextId' = [nextId EXCEPT !.transaction = @ + 1]
            /\ resp' = Ok("transaction.create", nextId.transaction)
    /\ UNCHANGED <<users, exchanges, stocks, priceHistory, watchlist, positions>>
    /\ UNCHANGED <<reqs, http, closes>>

TransactionUpdateInputs(quantities, prices, notes) ==
    [id : TransactionIds,
     quantity : {None} \cup {Some(v) : v \in quantities},
     price : {None} \cup {Some(v) : v \in prices},
     notes : {None} \cup {Some(v) : v \in notes}]

TransactionNotFoundMsg == "Transaction not found"

\* quantity ?? current.quantity
OrElse(opt, current) == IF opt = None THEN current ELSE opt[1]

\* the `data` of the update, applied to the stored row; `current` is the
\* row read by findUnique when quantity or price is supplied
\* slip: totalValue is recomputed from the supplied values only
UpdatedTransaction_Supplied(stored, current, input) ==
    [stored EXCEPT
        !.notes = Merge(@, input.notes),
        !.quantity = OrElse(input.quantity, @),
        !.price = OrElse(input.price, @),
        !.totalValue = IF input.quantity # None /\ input.price # None
                       THEN input.quantity[1] * input.price[1] ELSE @]

UpdatedTransaction(stored, current, input) ==
    IF input.quantity # None \/ input.price # None
    THEN [stored EXCEPT
            !.notes = Merge(@, input.notes),
            !.quantity = OrElse(input.quantity, @),
            !.price = OrElse(input.price, @),
            !.totalValue = OrElse(input.quantity, current.quantity)
                             * OrElse(input.price, current.price)]
    ELSE [stored EXCEPT !.notes = Merge(@, input.notes)]

TransactionUpdate(input) ==
    /\ IF input.id \notin DOMAIN transactions
       THEN /\ resp' = Fail("transaction.update", input.id,
                            IF input.quantity # None \/ input.price # None
                            THEN TransactionNotFoundMsg ELSE P2025)
            /\ UNCHANGED transactions
       ELSE /\ transactions' = [transactions EXCEPT ![input.id] =
                                   UpdatedTransaction(@, transactions[input.id], input)]
            /\ resp' = Ok("transaction.update", input.id)
    /\ UNCHANGED <<users, exchanges, stocks, priceHistory, watchlist, positions, nextId>>
    /\ UNCHANGED <<reqs, http, closes>>

\* slip: a transaction its position still relies on is kept
TransactionDelete_Guarded(id) ==
    /\ IF id \notin DOMAIN transactions
       THEN /\ resp' = Fail("transaction.delete", id, P2025)
            /\ UNCHANGED transactions
       ELSE IF transactions[id].type = "BUY"
       THEN /\ resp' = Fail("transaction.delete", id, "Cannot delete the opening transaction")
            /\ UNCHANGED transactions
       ELSE /\ transactions' = Remove(transactions, id)
            /\ resp' = Ok("transaction.delete", 0)
    /\ UNCHANGED <<users, exchanges, stocks, priceHistory, watchlist, positions, nextId>>
    /\ UNCHANGED <<reqs, http, closes>>

TransactionDelete(id) ==
    /\ IF id \notin DOMAIN transactions
       THEN /\ resp' = Fail("transaction.delete", id, P2025)
            /\ UNCHANGED transactions
       ELSE /\ transactions' = Remove(transactions, id)
            /\ resp' = Ok("transaction.delete", 0)
    /\ UNCHANGED <<users, exchanges, stocks, priceHistory, watchlist, positions, nextId>>
    /\ UNCHANGED <<reqs, http, closes>>

\* createMany: one INSERT statement, all rows or none
TransactionCreateBulk(inputs) ==
    /\ \A i \in 1..Len(inputs) : ValidTransactionInput(inputs[i])
    /\ nextId.transaction + Len(inputs) - 1 <= MaxTransactions
    /\ IF \E i \in 1..Len(inputs) : inputs[i].positionId \notin DOMAIN positions
       THEN /\ resp' = Fail("transaction.createBulk", 0, P2003)
            /\ UNCHANGED <<transactions, nextId>>
       ELSE /\ transactions' =
                 [t \in DOMAIN transactions \cup
                        (nextId.transaction .. nextId.transaction + Len(inputs) - 1) |->
                     IF t \in DOMAIN transactions THEN transactions[t]
                     ELSE NewTransaction(t, inputs[t - nextId.transaction + 1])]
            /\ nextId' = [nextId EXCEPT !.transaction = @ + Len(inputs)]
            /\ resp' = Ok("transaction.createBulk", Len(inputs))
    /\ UNCHANGED <<users, exchanges, stocks, priceHistory, watchlist, positions>>
    /\ UNCHANGED <<reqs, http, closes>>

----------------------------------------------------------------------------
(* stock.addPriceHistory, watchlist.add *)

\* a price-history row: open, high and low are handled like close
PriceHistoryInputsOf(stockIds, dates, closePrices, volumes) ==
    [stockId : stockIds, date : dates, close : closePrices, volume : volumes]

PriceDates == {1, 2}
PriceCloses == {100, 120}
PriceVolumes == {None, Some(7), Some(9)}

PriceHistoryInputs == PriceHistoryInputsOf(StockIds, PriceDates, PriceCloses, PriceVolumes)

SameDay(h, stockId, date) == h.stockId = stockId /\ h.date = date

\* upsert's update: a member of `update` that is undefined is not written
Updated(stored, input) ==
    [stored EXCEPT !.close = input.close, !.volume = IF input.volume = None THEN @ ELSE input.volume]

\* upsert on the unique pair (stockId, date)
AddPriceHistory(input) ==
    /\ IF input.stockId \notin DOMAIN stocks
       THEN /\ resp' = Fail("stock.addPriceHistory", input.stockId, P2003)
            /\ UNCHANGED priceHistory
       ELSE /\ priceHistory' =
                 IF \E h \in priceHistory : SameDay(h, input.stockId, input.date)
                 THEN {IF SameDay(h, input.stockId, input.date) THEN Updated(h, input) ELSE h :
                          h \in priceHistory}
                 ELSE priceHistory \cup {input}
            /\ resp' = Ok("stock.addPriceHistory", input.stockId)
    /\ UNCHANGED <<users, exchanges, stocks, watchlist, positions, transactions, nextId>>
    /\ UNCHANGED <<reqs, http, closes>>

WatchlistInputs ==
    [userId : UserIds, stockId : StockIds,
     targetPrice : {None} \cup {Some(v) : v \in TargetPrices}]

\* slip: the target price is not stored
NewWatchlistItem_NoTarget(id, input) ==
    [id |-> id, userId |-> input.userId, stockId |-> input.stockId, targetPrice |-> None]

NewWatchlistItem(id, input) ==
    [id |-> id, userId |-> input.userId, stockId |-> input.stockId,
     targetPrice |-> input.targetPrice]

WatchlistAdd(input) ==
    /\ nextId.watchlist <= MaxWatchlist
    /\ IF input.userId \notin DOMAIN users \/ input.stockId \notin DOMAIN stocks
       THEN /\ resp' = Fail("watchlist.add", 0, P2003)
            /\ UNCHANGED <<watchlist, nextId>>
       ELSE IF \E w \in DOMAIN watchlist :
                  /\ watchlist[w].userId = input.userId
                  /\ watchlist[w].stockId = input.stockId
       THEN /\ resp' = Fail("watchlist.add", 0, P2002)
            /\ UNCHANGED <<watchlist, nextId>>
       ELSE /\ watchlist' = Put(watchlist, nextId.watchlist,
                                NewWatchlistItem(nextId.watchlist, input))
            /\ nextId' = [nextId EXCEPT !.watchlist = @ + 1]
            /\ resp' = Ok("watchlist.add", nextId.watchlist)
    /\ UNCHANGED <<users, exchanges, stocks, priceHistory, positions, transactions>>
    /\ UNCHANGED <<reqs, http, closes>>

\* watchlist.remove: prisma.watchlist.delete({where: {id}})
WatchlistRemove(id) ==
    /\ IF id \notin DOMAIN watchlist
       THEN /\ resp' = Fail("watchlist.remove", id, P2025)
            /\ UNCHANGED watchlist
       ELSE /\ watchlist' = Remove(watchlist, id)
            /\ resp' = Ok("watchlist.remove", id)
    /\ UNCHANGED <<users, exchanges, stocks, priceHistory, positions, transactions, nextId>>
    /\ UNCHANGED <<reqs, http, closes>>

----------------------------------------------------------------------------
(* user.delete, exchange.delete, stock.delete *)

UserHasPositionsMsg == "Cannot delete user with existing positions"
ExchangeHasStocksMsg == "Cannot delete exchange with existing stocks"
StockHasPositionsMsg == "Cannot delete stock with existing positions"

\* the dependent-row checks
UserDeleteBlocked(id) == Cardinality(PositionsOfUser(id)) > 0
ExchangeDeleteBlocked(id) == Cardinality(StocksOfExchange(id)) > 0
StockDeleteBlocked_Never(id) == FALSE
StockDeleteBlocked(id) == Cardinality(PositionsOfStock(id)) > 0

\* What the database does with the watchlist rows of a deleted user or
\* stock is set by the relation's onDelete in the Prisma schema: the delete
\* is refused (P2003) or the rows go with it.  Both outcomes are allowed.
WatchlistOnDelete == {"Restrict", "Cascade"}

UserDelete(id) ==
    /\ IF UserDeleteBlocked(id)
       THEN /\ resp' = Fail("user.delete", id, UserHasPositionsMsg)
            /\ UNCHANGED <<users, watchlist>>
       ELSE IF id \notin DOMAIN users
       THEN /\ resp' = Fail("user.delete", id, P2025)
            /\ UNCHANGED <<users, watchlist>>
       ELSE IF WatchlistOfUser(id) = {}
       THEN /\ users' = Remove(users, id)
            /\ resp' = Ok("user.delete", 0)
            /\ UNCHANGED watchlist
       ELSE \E policy \in WatchlistOnDelete :
              IF policy = "Restrict"
              THEN /\ resp' = Fail("user.delete", id, P2003)
                   /\ UNCHANGED <<users, watchlist>>
              ELSE /\ users' = Remove(users, id)
                   /\ watchlist' = [w \in DOMAIN watchlist \ WatchlistOfUser(id) |->
                                       watchlist[w]]
                   /\ resp' = Ok("user.delete", 0)
    /\ UNCHANGED <<exchanges, stocks, priceHistory, positions, transactions, nextId>>
    /\ UNCHANGED <<reqs, http, closes>>

ExchangeDelete(id) ==
    /\ IF ExchangeDeleteBlocked(id)
       THEN /\ resp' = Fail("exchange.delete", id, ExchangeHasStocksMsg)
            /\ UNCHANGED exchanges
       ELSE IF id \notin DOMAIN exchanges
       THEN /\ resp' = Fail("exchange.delete", id, P2025)
            /\ UNCHANGED exchanges
       ELSE /\ exchanges' = Remove(exchanges, id)
            /\ resp' = Ok("exchange.delete", 0)
    /\ UNCHANGED <<users, stocks, priceHistory, watchlist, positions, transactions, nextId>>
    /\ UNCHANGED <<reqs, http, closes>>

\* slip: the price history of the stock is left in place
WithoutPriceHistoryOf_Kept(id) == priceHistory

\* prisma.priceHistory.deleteMany({where: {stockId: input.id}})
WithoutPriceHistoryOf(id) == priceHistory \ PriceHistoryOf(id)

\* priceHistory.deleteMany, then stock.delete: two statements, no transaction
StockDelete(id) ==
    /\ IF StockDeleteBlocked(id)
       THEN /\ resp' = Fail("stock.delete", id, StockHasPositionsMsg)
            /\ UNCHANGED <<stocks, priceHistory, watchlist>>
       ELSE /\ priceHistory' = WithoutPriceHistoryOf(id)
            /\ IF id \notin DOMAIN stocks
               THEN /\ resp' = Fail("stock.delete", id, P2025)
                    /\ UNCHANGED <<stocks, watchlist>>
               ELSE IF WatchlistOfStock(id) = {}
               THEN /\ stocks' = Remove(stocks, id)
                    /\ resp' = Ok("stock.delete", 0)
                    /\ UNCHANGED watchlist
               ELSE \E policy \in WatchlistOnDelete :
                      IF policy = "Restrict"
                      THEN /\ resp' = Fail("stock.delete", id, P2003)
                           /\ UNCHANGED <<stocks, watchlist>>
                      ELSE /\ stocks' = Remove(stocks, id)
                           /\ watchlist' = [w \in DOMAIN watchlist \ WatchlistOfStock(id) |->
                                               watchlist[w]]
                           /\ resp' = Ok("stock.delete", 0)
    /\ UNCHANGED <<users, exchanges, positions, transactions, nextId>>
    /\ UNCHANGED <<reqs, http, closes>>

----------------------------------------------------------------------------
(* The REST surface: the express middleware, /api/users and /api/exchanges *)

\* res.status(status).json(body): of the body, its `success` member (the
\* middleware's bodies have none) and its `error` member
Response(status, success, error) ==
    [status |-> status, success |-> success, error |-> error]

Exchange(route, responses) == [route |-> route, responses |-> responses]

\* what Prisma throws: an error with a code, and no status
PrismaError(code) ==
    [code |-> Some(code), status |-> None, name |-> "PrismaClientKnownRequestError"]

ErrorHandler_AllInternal(err) == Response(500, None, err.name)

ErrorHandler(err) ==
    IF err.code = Some(P2002) THEN Response(409, None, "Conflict")
    ELSE IF err.code = Some(P2025) THEN Response(404, None, "Not Found")
    ELSE Response(IF err.status # None /\ err.status[1] # 0 THEN err.status[1] ELSE 500,
                  None, err.name)

\* Promise.resolve(fn(req, res, next)).catch(next): what the handler wrote,
\* then, if it threw, what the error handler writes
AsyncHandler(written, thrown) ==
    IF thrown = None THEN written ELSE Append(written, ErrorHandler(thrown[1]))

\* a path parameter: whether the text matches /^c[^\s-]{8,}$/, and the row
\* id it spells when it does
PathParams(ids) == [cuid : {TRUE}, id : ids] \cup [cuid : {FALSE}, id : {0}]

ValidateCuid(param) ==
    IF param.cuid THEN <<>> ELSE <<Response(400, None, "Invalid ID format")>>

HandleValidationErrors(errors) ==
    IF errors # {} THEN <<Response(400, None, "Validation Error")>> ELSE <<>>

RestEmails == Emails \cup {"not-an-email"}
IsEmail(text) == text \in Emails

CreateUserValidation(body) ==
    HandleValidationErrors(IF IsEmail(body.email) THEN {} ELSE {"email"})

UpdateUserValidation(body) ==
    HandleValidationErrors(IF body.email # None /\ ~IsEmail(body.email[1])
                           THEN {"email"} ELSE {})

RestCodes == Codes \cup {"", " nyse"}
ToUpperCase(code) == IF code = "nyse" THEN "NYSE" ELSE code

\* express-validator's trim(): the sanitizer rewrites the member of req.body
Trim(text) == IF text = " nyse" THEN "nyse" ELSE text

CreateExchangeValidation(body) ==
    HandleValidationErrors(IF Trim(body.code) # "" THEN {} ELSE {"code"})

CreateUserBodies == [email : RestEmails]
UpdateUserBodies == [email : {None} \cup {Some(e) : e \in RestEmails},
                     name : {None} \cup {Some(n) : n \in NoteValues}]
CreateExchangeBodies == [code : RestCodes]
UpdateExchangeBodies == [isActive : {None} \cup {Some(b) : b \in BOOLEAN}]

\* POST /api/users
RestPostUser(body) ==
    /\ IF CreateUserValidation(body) # <<>>
       THEN /\ http' = Exchange("POST /api/users", CreateUserValidation(body))
            /\ UNCHANGED db
       ELSE IF \E u \in DOMAIN users : users[u].email = body.email
       THEN /\ http' = Exchange("POST /api/users",
                                AsyncHandler(<<>>, Some(PrismaError(P2002))))
            /\ UNCHANGED db
       ELSE /\ nextId.user <= MaxUsers
            /\ users' = Put(users, nextId.user,
                            [id |-> nextId.user, email |-> body.email, name |-> None])
            /\ nextId' = [nextId EXCEPT !.user = @ + 1]
            /\ http' = Exchange("POST /api/users",
                                AsyncHandler(<<Response(201, Some(TRUE), "")>>, None))
            /\ UNCHANGED <<exchanges, stocks, priceHistory, watchlist, positions, transactions>>
    /\ UNCHANGED <<reqs, resp, closes>>

\* PUT /api/users/:id
RestPutUser(param, body) ==
    /\ IF ValidateCuid(param) # <<>>
       THEN /\ http' = Exchange("PUT /api/users/:id", ValidateCuid(param))
            /\ UNCHANGED users
       ELSE IF UpdateUserValidation(body) # <<>>
       THEN /\ http' = Exchange("PUT /api/users/:id", UpdateUserValidation(body))
            /\ UNCHANGED users
       ELSE IF param.id \notin DOMAIN users
       THEN /\ http' = Exchange("PUT /api/users/:id",
                                AsyncHandler(<<>>, Some(PrismaError(P2025))))
            /\ UNCHANGED users
       ELSE IF /\ body.email # None
               /\ \E u \in DOMAIN users \ {param.id} : users[u].email = body.email[1]
       THEN /\ http' = Exchange("PUT /api/users/:id",
                                AsyncHandler(<<>>, Some(PrismaError(P2002))))
            /\ UNCHANGED users
       ELSE /\ users' = [users EXCEPT ![param.id] =
                            [@ EXCEPT !.email = OrElse(body.email, @),
                                      !.name = IF body.name # None THEN body.name ELSE @]]
            /\ http' = Exchange("PUT /api/users/:id",
                                AsyncHandler(<<Response(200, Some(TRUE), "")>>, None))
    /\ UNCHANGED <<exchanges, stocks, priceHistory, watchlist, positions, transactions, nextId>>
    /\ UNCHANGED <<reqs, resp, closes>>

\* the answer of DELETE to an entity that still has dependent rows
DeleteRefused_Conflict(msg) == Response(409, Some(FALSE), msg)
DeleteRefused(msg) == Response(400, Some(FALSE), msg)

\* DELETE /api/users/:id
RestDeleteUser(param) ==
    /\ IF ValidateCuid(param) # <<>>
       THEN /\ http' = Exchange("DELETE /api/users/:id", ValidateCuid(param))
            /\ UNCHANGED <<users, watchlist>>
       ELSE IF Cardinality(PositionsOfUser(param.id)) > 0
       THEN /\ http' = Exchange("DELETE /api/users/:id",
                                AsyncHandler(<<DeleteRefused(UserHasPositionsMsg)>>, None))
            /\ UNCHANGED <<users, watchlist>>
       ELSE IF param.id \notin DOMAIN users
       THEN /\ http' = Exchange("DELETE /api/users/:id",
                                AsyncHandler(<<>>, Some(PrismaError(P2025))))
            /\ UNCHANGED <<users, watchlist>>
       ELSE IF WatchlistOfUser(param.id) = {}
       THEN /\ users' = Remove(users, param.id)
            /\ http' = Exchange("DELETE /api/users/:id",
                                AsyncHandler(<<Response(200, Some(TRUE), "")>>, None))
            /\ UNCHANGED watchlist
       ELSE \E policy \in WatchlistOnDelete :
              IF policy = "Restrict"
              THEN /\ http' = Exchange("DELETE /api/users/:id",
                                       AsyncHandler(<<>>, Some(PrismaError(P2003))))
                   /\ UNCHANGED <<users, watchlist>>
              ELSE /\ users' = Remove(users, param.id)
                   /\ watchlist' = [w \in DOMAIN watchlist \ WatchlistOfUser(param.id) |->
                                       watchlist[w]]
                   /\ http' = Exchange("DELETE /api/users/:id",
                                       AsyncHandler(<<Response(200, Some(TRUE), "")>>, None))
    /\ UNCHANGED <<exchanges, stocks, priceHistory, positions, transactions, nextId>>
    /\ UNCHANGED <<reqs, resp, closes>>

\* POST /api/exchanges
RestPostExchange(body) ==
    /\ IF CreateExchangeValidation(body) # <<>>
       THEN /\ http' = Exchange("POST /api/exchanges", CreateExchangeValidation(body))
            /\ UNCHANGED db
       ELSE IF \E e \in DOMAIN exchanges : exchanges[e].code = ToUpperCase(Trim(body.code))
       THEN /\ http' = Exchange("POST /api/exchanges",
                                AsyncHandler(<<>>, Some(PrismaError(P2002))))
            /\ UNCHANGED db
       ELSE /\ nextId.exchange <= MaxExchanges
            /\ exchanges' = Put(exchanges, nextId.exchange,
                                [id |-> nextId.exchange, code |-> ToUpperCase(Trim(body.code)),
                                 isActive |-> TRUE])
            /\ nextId' = [nextId EXCEPT !.exchange = @ + 1]
            /\ http' = Exchange("POST /api/exchanges",
                                AsyncHandler(<<Response(201, Some(TRUE), "")>>, None))
            /\ UNCHANGED <<users, stocks, priceHistory, watchlist, positions, transactions>>
    /\ UNCHANGED <<reqs, resp, closes>>

\* PUT /api/exchanges/:id
RestPutExchange(param, body) ==
    /\ IF ValidateCuid(param) # <<>>
       THEN /\ http' = Exchange("PUT /api/exchanges/:id", ValidateCuid(param))
            /\ UNCHANGED exchanges
       ELSE IF param.id \notin DOMAIN exchanges
       THEN /\ http' = Exchange("PUT /api/exchanges/:id",
                                AsyncHandler(<<>>, Some(PrismaError(P2025))))
            /\ UNCHANGED exchanges
       ELSE /\ exchanges' = [exchanges EXCEPT ![param.id].isActive =
                                OrElse(body.isActive, @)]
            /\ http' = Exchange("PUT /api/exchanges/:id",
                                AsyncHandler(<<Response(200, Some(TRUE), "")>>, None))
    /\ UNCHANGED <<users, stocks, priceHistory, watchlist, positions, transactions, nextId>>
    /\ UNCHANGED <<reqs, resp, closes>>

\* DELETE /api/exchanges/:id
RestDeleteExchange(param) ==
    /\ IF ValidateCuid(param) # <<>>
       THEN /\ http' = Exchange("DELETE /api/exchanges/:id", ValidateCuid(param))
            /\ UNCHANGED exchanges
       ELSE IF Cardinality(StocksOfExchange(param.id)) > 0
       THEN /\ http' = Exchange("DELETE /api/exchanges/:id",
                                AsyncHandler(<<DeleteRefused(ExchangeHasStocksMsg)>>, None))
            /\ UNCHANGED exchanges
       ELSE IF param.id \notin DOMAIN exchanges
       THEN /\ http' = Exchange("DELETE /api/exchanges/:id",
                                AsyncHandler(<<>>, Some(PrismaError(P2025))))
            /\ UNCHANGED exchanges
       ELSE /\ exchanges' = Remove(exchanges, param.id)
            /\ http' = Exchange("DELETE /api/exchanges/:id",
                                AsyncHandler(<<Response(200, Some(TRUE), "")>>, None))
    /\ UNCHANGED <<users, stocks, priceHistory, watchlist, positions, transactions, nextId>>
    /\ UNCHANGED <<reqs, resp, closes>>

----------------------------------------------------------------------------
(* The paginated lists *)

\* the return of a query: its data beside the outcome
OkData(op, data) == [op |-> op, ok |-> TRUE, error |-> "", id |-> 0, data |-> data]

Min(a, b) == IF a < b THEN a ELSE b

\* findMany's rows: the matching ids in an order that respects orderBy; rows
\* the ordering does not tell apart come in an order the database picks
Orderings(ids, Before(_, _)) ==
    {rows \in [1..Cardinality(ids) -> ids] :
        \A i, j \in 1..Cardinality(ids) :
            i < j => rows[i] # rows[j] /\ ~Before(rows[j], rows[i])}

\* take: limit, skip: offset
TakeSkip(rows, take, skip) == SubSeq(rows, skip + 1, Min(skip + take, Len(rows)))

ListResult_PageTotal(rows, total, limit, offset) ==
    [items |-> rows, total |-> Len(rows), hasMore |-> offset + limit < Len(rows)]

ListResult(rows, total, limit, offset) ==
    [items |-> rows, total |-> total, hasMore |-> offset + limit < total]

Limits == {1, 2}
Offsets == {0, 1, 2}
DefaultLimit == 50

Unchanged == UNCHANGED <<db, reqs, http, closes>>

\* position.list
GetPositionsInputs(userIds, statuses, stockIds, limits, offsets) ==
    [userId : userIds, status : Optional(statuses), stockId : Optional(stockIds),
     limit : limits, offset : offsets]

\* slip: the status filter is dropped
PositionWhere_AnyStatus(input) ==
    {p \in DOMAIN positions :
        /\ positions[p].userId = input.userId
        /\ input.stockId # None => positions[p].stockId = input.stockId[1]}

PositionWhere(input) ==
    {p \in DOMAIN positions :
        /\ positions[p].userId = input.userId
        /\ input.status # None => positions[p].status = input.status[1]
        /\ input.stockId # None => positions[p].stockId = input.stockId[1]}

ByOpenDateDesc(a, b) == positions[a].openDate > positions[b].openDate

PositionList(input) ==
    /\ \E rows \in Orderings(PositionWhere(input), ByOpenDateDesc) :
          resp' = OkData("position.list",
                         ListResult(TakeSkip(rows, input.limit, input.offset),
                                    Cardinality(PositionWhere(input)),
                                    input.limit, input.offset))
    /\ Unchanged

\* transaction.list
GetTransactionsInputs(positionIds, userIds, types, dates, limits, offsets) ==
    [positionId : Optional(positionIds), userId : Optional(userIds), type : Optional(types),
     startDate : Optional(dates), endDate : Optional(dates),
     limit : limits, offset : offsets]

TransactionWhere(input) ==
    {t \in DOMAIN transactions :
        /\ input.positionId # None => transactions[t].positionId = input.positionId[1]
        /\ input.userId # None =>
              /\ transactions[t].positionId \in DOMAIN positions
              /\ positions[transactions[t].positionId].userId = input.userId[1]
        /\ input.type # None => transactions[t].type = input.type[1]
        /\ input.startDate # None => transactions[t].date >= input.startDate[1]
        /\ input.endDate # None => transactions[t].date <= input.endDate[1]}

ByDateDesc(a, b) == transactions[a].date > transactions[b].date

TransactionList(input) ==
    /\ \E rows \in Orderings(TransactionWhere(input), ByDateDesc) :
          resp' = OkData("transaction.list",
                         ListResult(TakeSkip(rows, input.limit, input.offset),
                                    Cardinality(TransactionWhere(input)),
                                    input.limit, input.offset))
    /\ Unchanged

\* orderBy: { createdAt: 'desc' }: ids are handed out in creation order
NewestFirst(a, b) == a > b

\* watchlist.list
WatchlistListInputs == [userId : UserIds, limit : Limits, offset : Offsets]

WatchlistList(input) ==
    /\ \E rows \in Orderings(WatchlistOfUser(input.userId), NewestFirst) :
          resp' = OkData("watchlist.list",
                         ListResult(TakeSkip(rows, input.limit, input.offset),
                                    Cardinality(WatchlistOfUser(input.userId)),
                                    input.limit, input.offset))
    /\ Unchanged

\* user.list
PageInputs == [limit : Limits, offset : Offsets]

UserList(input) ==
    /\ \E rows \in Orderings(DOMAIN users, NewestFirst) :
          resp' = OkData("user.list",
                         ListResult(TakeSkip(rows, input.limit, input.offset),
                                    Cardinality(DOMAIN users),
                                    input.limit, input.offset))
    /\ Unchanged

\* stock.list (sector, search and isActive absent from the input)
StockListInputs ==
    [exchangeId : {None} \cup {Some(e) : e \in ExchangeIds}, limit : Limits, offset : Offsets]

StockWhere(input) ==
    {s \in DOMAIN stocks : input.exchangeId # None => stocks[s].exchangeId = input.exchangeId[1]}

\* orderBy: { symbol: 'asc' }; the symbols drawn are all the same one
BySymbolAsc(a, b) == FALSE

StockList(input) ==
    /\ \E rows \in Orderings(StockWhere(input), BySymbolAsc) :
          resp' = OkData("stock.list",
                         ListResult(TakeSkip(rows, input.limit, input.offset),
                                    Cardinality(StockWhere(input)),
                                    input.limit, input.offset))
    /\ Unchanged

\* GET /api/users?limit=&offset=
DataResponse(status, data) ==
    [status |-> status, success |-> Some(TRUE), error |-> "", data |-> data]

\* limit and offset as sent: absent, or an integer (0 is no valid limit)
GetUsersQueries ==
    [limit : {None} \cup {Some(l) : l \in Limits \cup {0}},
     offset : {None} \cup {Some(o) : o \in Offsets}]

GetUsersValidation(query) ==
    HandleValidationErrors(
        (IF query.limit # None /\ ~(query.limit[1] >= 1 /\ query.limit[1] <= 100)
         THEN {"limit"} ELSE {})
        \cup (IF query.offset # None /\ ~(query.offset[1] >= 0) THEN {"offset"} ELSE {}))

\* Number(req.query.x) || fallback
NumberOr(opt, fallback) == IF opt = None \/ opt[1] = 0 THEN fallback ELSE opt[1]

RestGetUsers(query) ==
    /\ IF GetUsersValidation(query) # <<>>
       THEN http' = Exchange("GET /api/users", GetUsersValidation(query))
       ELSE LET limit == NumberOr(query.limit, DefaultLimit)
                offset == NumberOr(query.offset, 0) IN
            \E rows \in Orderings(DOMAIN users, NewestFirst) :
                http' = Exchange("GET /api/users",
                                 AsyncHandler(<<DataResponse(200,
                                     ListResult(TakeSkip(rows, limit, offset),
                                                Cardinality(DOMAIN users), limit, offset))>>,
                                     None))
    /\ UNCHANGED <<db, reqs, resp, closes>>

----------------------------------------------------------------------------
(* stock.addBulkPriceHistory, watchlist.bulkAdd, watchlist.getPriceAlerts *)

\* createMany({ data, skipDuplicates: true }) inserts the rows of `data`, in
\* order, that collide neither with a stored row nor with an earlier row of
\* `data`: the positions in `data` of the rows it inserts
Inserted(data, Stored(_), Same(_, _)) ==
    {i \in 1..Len(data) :
        /\ ~Stored(data[i])
        /\ \A j \in 1..(i - 1) : ~Same(data[j], data[i])}

BulkPriceInputs(stockIds, rows) ==
    [stockId : stockIds,
     data : {<<>>} \cup {<<a>> : a \in rows} \cup {<<a, b>> : a \in rows, b \in rows}]

AddBulkPriceHistory(input) ==
    LET stockId == input.stockId
        data == [i \in 1..Len(input.data) |->
                    [stockId |-> stockId, date |-> input.data[i].date,
                     close |-> input.data[i].close, volume |-> input.data[i].volume]]
        IsStored(row) == \E h \in priceHistory : SameDay(h, row.stockId, row.date)
        SameKey(a, b) == a.date = b.date
        inserted == Inserted(data, IsStored, SameKey) IN
    /\ IF Len(data) > 0 /\ stockId \notin DOMAIN stocks
       THEN /\ resp' = Fail("stock.addBulkPriceHistory", 0, P2003)
            /\ UNCHANGED priceHistory
       ELSE /\ priceHistory' = priceHistory \cup {data[i] : i \in inserted}
            /\ resp' = OkData("stock.addBulkPriceHistory", [created |-> Cardinality(inserted)])
    /\ UNCHANGED <<users, exchanges, stocks, watchlist, positions, transactions, nextId>>
    /\ UNCHANGED <<reqs, http, closes>>

BulkAddInputs(userIds, stockIds) ==
    [userId : userIds,
     stockIds : {<<>>} \cup {<<a>> : a \in stockIds} \cup {<<a, b>> : a \in stockIds, b \in stockIds}]

WatchlistBulkAdd_NoSkip(input) ==
    LET data == [i \in 1..Len(input.stockIds) |->
                    [userId |-> input.userId, stockId |-> input.stockIds[i], targetPrice |-> None]]
        IsStored(row) == \E w \in DOMAIN watchlist :
                            watchlist[w].userId = row.userId /\ watchlist[w].stockId = row.stockId
        SamePair(a, b) == a.stockId = b.stockId
        inserted == Inserted(data, IsStored, SamePair)
        IdOf(i) == nextId.watchlist + Cardinality({j \in inserted : j < i}) IN
    /\ nextId.watchlist + Cardinality(inserted) - 1 <= MaxWatchlist
    /\ IF \E i \in 1..Len(data) :
             data[i].userId \notin DOMAIN users \/ data[i].stockId \notin DOMAIN stocks
       THEN /\ resp' = Fail("watchlist.bulkAdd", 0, P2003)
            /\ UNCHANGED <<watchlist, nextId>>
       ELSE IF Cardinality(inserted) < Len(data)
       THEN /\ resp' = Fail("watchlist.bulkAdd", 0, P2002)
            /\ UNCHANGED <<watchlist, nextId>>
       ELSE /\ watchlist' =
                 [w \in DOMAIN watchlist \cup {IdOf(i) : i \in inserted} |->
                     IF w \in DOMAIN watchlist THEN watchlist[w]
                     ELSE LET i == CHOOSE k \in inserted : IdOf(k) = w IN
                          [id |-> w, userId |-> data[i].userId, stockId |-> data[i].stockId,
                           targetPrice |-> None]]
            /\ nextId' = [nextId EXCEPT !.watchlist = @ + Cardinality(inserted)]
            /\ resp' = OkData("watchlist.bulkAdd", [added |-> Cardinality(inserted)])
    /\ UNCHANGED <<users, exchanges, stocks, priceHistory, positions, transactions>>
    /\ UNCHANGED <<reqs, http, closes>>

WatchlistBulkAdd(input) ==
    LET data == [i \in 1..Len(input.stockIds) |->
                    [userId |-> input.userId, stockId |-> input.stockIds[i], targetPrice |-> None]]
        IsStored(row) == \E w \in DOMAIN watchlist :
                            watchlist[w].userId = row.userId /\ watchlist[w].stockId = row.stockId
        SamePair(a, b) == a.stockId = b.stockId
        inserted == Inserted(data, IsStored, SamePair)
        IdOf(i) == nextId.watchlist + Cardinality({j \in inserted : j < i}) IN
    /\ nextId.watchlist + Cardinality(inserted) - 1 <= MaxWatchlist
    /\ IF \E i \in 1..Len(data) :
             data[i].userId \notin DOMAIN users \/ data[i].stockId \notin DOMAIN stocks
       THEN /\ resp' = Fail("watchlist.bulkAdd", 0, P2003)
            /\ UNCHANGED <<watchlist, nextId>>
       ELSE /\ watchlist' =
                 [w \in DOMAIN watchlist \cup {IdOf(i) : i \in inserted} |->
                     IF w \in DOMAIN watchlist THEN watchlist[w]
                     ELSE LET i == CHOOSE k \in inserted : IdOf(k) = w IN
                          [id |-> w, userId |-> data[i].userId, stockId |-> data[i].stockId,
                           targetPrice |-> None]]
            /\ nextId' = [nextId EXCEPT !.watchlist = @ + Cardinality(inserted)]
            /\ resp' = OkData("watchlist.bulkAdd", [added |-> Cardinality(inserted)])
    /\ UNCHANGED <<users, exchanges, stocks, priceHistory, positions, transactions>>
    /\ UNCHANGED <<reqs, http, closes>>

\* priceHistory.findFirst({ where: { stockId }, orderBy: { date: 'desc' } })
LatestPrice(stockId) ==
    IF PriceHistoryOf(stockId) = {} THEN None
    ELSE Some(CHOOSE h \in PriceHistoryOf(stockId) :
                  \A g \in PriceHistoryOf(stockId) : g.date <= h.date)

Triggered_Above(latest, targetPrice) ==
    IF latest # None /\ targetPrice # None THEN latest[1].close > targetPrice[1] ELSE FALSE

\* latestPrice && item.targetPrice ? close >= targetPrice : false
Triggered(latest, targetPrice) ==
    IF latest # None /\ targetPrice # None THEN latest[1].close >= targetPrice[1] ELSE FALSE

WithDetails(item) ==
    [id |-> item.id, userId |-> item.userId, stockId |-> item.stockId,
     targetPrice |-> item.targetPrice,
     currentPrice |-> IF LatestPrice(item.stockId) = None THEN None
                      ELSE Some(LatestPrice(item.stockId)[1].close),
     triggered |-> Triggered(LatestPrice(item.stockId), item.targetPrice)]

IsTriggered(item) == item.triggered

WatchlistGetPriceAlerts(userId) ==
    /\ \E rows \in Orderings({w \in WatchlistOfUser(userId) : watchlist[w].targetPrice # None},
                             NewestFirst) :
          LET itemsWithDetails == [i \in 1..Len(rows) |-> WithDetails(watchlist[rows[i]])] IN
          resp' = OkData("watchlist.getPriceAlerts",
                         [watchlistWithAlerts |-> itemsWithDetails,
                          triggeredAlerts |-> SelectSeq(itemsWithDetails, IsTriggered)])
    /\ Unchanged

----------------------------------------------------------------------------
(* Fetching one row by id: the getById procedures, GET /api/users/:id and  *)
(* GET /api/exchanges/:id.  Of what a fetch returns, the row's own columns *)
(* are kept; the relations it includes are left out.                       *)

\* findUnique({where: {id}}): the row, or null
FindUnique(table, id) == IF id \in DOMAIN table THEN Some(table[id]) ELSE None

\* a getById procedure: the row, or the Error it throws when there is none
GetById(op, table, id, msg) ==
    /\ resp' = IF FindUnique(table, id) = None
               THEN Fail(op, id, msg)
               ELSE OkData(op, FindUnique(table, id)[1])
    /\ Unchanged

UserGetById(id) == GetById("user.getById", users, id, "User not found")
ExchangeGetById(id) == GetById("exchange.getById", exchanges, id, "Exchange not found")
StockGetById(id) == GetById("stock.getById", stocks, id, "Stock not found")
PositionGetById(id) == GetById("position.getById", positions, id, NotFoundMsg)
TransactionGetById(id) ==
    GetById("transaction.getById", transactions, id, TransactionNotFoundMsg)
WatchlistGetById(id) ==
    GetById("watchlist.getById", watchlist, id, "Watchlist item not found")

\* a GET /:id route: validateCuid, then 404 or the row
RestGetById(route, table, param, msg) ==
    /\ http' = Exchange(route,
                 IF ValidateCuid(param) # <<>> THEN ValidateCuid(param)
                 ELSE IF FindUnique(table, param.id) = None
                 THEN AsyncHandler(<<Response(404, Some(FALSE), msg)>>, None)
                 ELSE AsyncHandler(<<DataResponse(200, FindUnique(table, param.id)[1])>>,
                                   None))
    /\ UNCHANGED <<db, reqs, resp, closes>>

RestGetUser(param) == RestGetById("GET /api/users/:id", users, param, "User not found")
RestGetExchange(param) ==
    RestGetById("GET /api/exchanges/:id", exchanges, param, "Exchange not found")

----------------------------------------------------------------------------
(* Looking an exchange up by its code: exchange.getByCode and              *)
(* GET /api/exchanges/code/:code                                            *)

\* findUnique({where: {code}}): the row, or null
FindByCode(code) ==
    IF \E e \in DOMAIN exchanges : exchanges[e].code = code
    THEN Some(exchanges[CHOOSE e \in DOMAIN exchanges : exchanges[e].code = code])
    ELSE None

ExchangeGetByCode(code) ==
    /\ resp' = IF FindByCode(ToUpperCase(code)) = None
               THEN Fail("exchange.getByCode", 0, "Exchange not found")
               ELSE OkData("exchange.getByCode", FindByCode(ToUpperCase(code))[1])
    /\ Unchanged

RestGetExchangeByCode(code) ==
    /\ http' = Exchange("GET /api/exchanges/code/:code",
                 IF FindByCode(ToUpperCase(code)) = None
                 THEN AsyncHandler(<<Response(404, Some(FALSE), "Exchange not found")>>, None)
                 ELSE AsyncHandler(<<DataResponse(200, FindByCode(ToUpperCase(code))[1])>>,
                                   None))
    /\ UNCHANGED <<db, reqs, resp, closes>>

----------------------------------------------------------------------------
(* position.openSummary *)

\* findMany without orderBy: the rows come in an order the database picks
NoOrder(a, b) == FALSE

\* slip: the status is not part of the filter
OpenPositionsOf_AnyStatus(userId) ==
    {p \in DOMAIN positions : positions[p].userId = userId}

\* where: {userId, status: 'OPEN'}
OpenPositionsOf(userId) ==
    {p \in DOMAIN positions :
        positions[p].userId = userId /\ positions[p].status = "OPEN"}

\* rows.reduce((sum, p) => sum + Number(p[column]), 0)
RECURSIVE Reduce(_, _)
Reduce(rows, column) ==
    IF rows = <<>> THEN 0
    ELSE positions[Head(rows)][column] + Reduce(Tail(rows), column)

\* the entry of the summary's list for one position
SummaryEntry(p) ==
    [id |-> p,
     stock |-> positions[p].stockId,
     quantity |-> positions[p].quantity,
     entryPrice |-> positions[p].entryPrice,
     capitalAllocated |-> positions[p].capitalAllocated,
     openDate |-> positions[p].openDate]

OpenSummary(userId) ==
    /\ \E rows \in Orderings(OpenPositionsOf(userId), NoOrder) :
          resp' = OkData("position.openSummary",
                         [totalPositions |-> Len(rows),
                          totalInvested |-> Reduce(rows, "capitalAllocated"),
                          totalValue |-> Reduce(rows, "totalBuyValue"),
                          positions |-> [i \in 1..Len(rows) |-> SummaryEntry(rows[i])]])
    /\ Unchanged

----------------------------------------------------------------------------
(* position.create and position.delete, one database call at a time: other  *)
(* requests may run between the two calls of each.                          *)

\* a database call that rejects for a reason of its own (connection lost,
\* statement timed out)
DatabaseError == "PrismaClientUnknownRequestError"

\* What the database does with the transactions of a deleted position is
\* set by the relation's onDelete in the Prisma schema: the delete is
\* refused (P2003) or the rows go with it.  Both outcomes are allowed.
TransactionOnDelete == {"Restrict", "Cascade"}

\* prisma.position.create
CreateBegin(input) ==
    LET r == Cardinality(DOMAIN reqs) + 1 IN
    /\ r <= MaxRequests
    /\ ValidCreateInput(input)
    /\ nextId.position <= MaxPositions
    /\ IF input.userId \notin DOMAIN users \/ input.stockId \notin DOMAIN stocks
       THEN /\ reqs' = Put(reqs, r, [input |-> input, pc |-> "done", position |-> None,
                                     ok |-> FALSE, error |-> P2003])
            /\ resp' = Fail("position.create", 0, P2003)
            /\ UNCHANGED <<positions, nextId>>
       ELSE /\ positions' = Put(positions, nextId.position,
                                NewPosition(nextId.position, input))
            /\ nextId' = [nextId EXCEPT !.position = @ + 1]
            /\ reqs' = Put(reqs, r, [input |-> input, pc |-> "buy",
                                     position |-> Some(NewPosition(nextId.position, input)),
                                     ok |-> FALSE, error |-> ""])
            /\ UNCHANGED resp
    /\ UNCHANGED <<users, exchanges, stocks, priceHistory, watchlist, transactions>>
    /\ UNCHANGED <<http, closes>>

\* prisma.transaction.create of the initial BUY, then return
CreateInsert(r) ==
    /\ r \in DOMAIN reqs
    /\ reqs[r].pc = "buy"
    /\ nextId.transaction <= MaxTransactions
    /\ LET input == reqs[r].input
           pid == reqs[r].position[1].id IN
       IF pid \notin DOMAIN positions
       THEN /\ reqs' = [reqs EXCEPT ![r] = Finished(@, FALSE, P2003)]
            /\ resp' = Fail("position.create", pid, P2003)
            /\ UNCHANGED <<transactions, nextId>>
       ELSE /\ transactions' = Put(transactions, nextId.transaction,
                                   BuyTransaction(nextId.transaction, pid, input))
            /\ nextId' = [nextId EXCEPT !.transaction = @ + 1]
            /\ reqs' = [reqs EXCEPT ![r] = Finished(@, TRUE, "")]
            /\ resp' = Ok("position.create", pid)
    /\ UNCHANGED <<users, exchanges, stocks, priceHistory, watchlist, positions>>
    /\ UNCHANGED <<http, closes>>

\* prisma.transaction.create of the initial BUY rejects: the procedure throws,
\* and nothing undoes the position it inserted
CreateInsertFails(r) ==
    /\ r \in DOMAIN reqs
    /\ reqs[r].pc = "buy"
    /\ reqs' = [reqs EXCEPT ![r] = Finished(@, FALSE, DatabaseError)]
    /\ resp' = Fail("position.create", reqs[r].position[1].id, DatabaseError)
    /\ UNCHANGED <<db, http, closes>>

\* prisma.transaction.count, then the check
DeleteBegin(id) ==
    LET r == Cardinality(DOMAIN reqs) + 1 IN
    /\ r <= MaxRequests
    /\ IF PositionDeleteBlocked(id)
       THEN /\ reqs' = Put(reqs, r, [input |-> [id |-> id], pc |-> "done", position |-> None,
                                     ok |-> FALSE, error |-> PositionHasTransactionsMsg])
            /\ resp' = Fail("position.delete", id, PositionHasTransactionsMsg)
       ELSE /\ reqs' = Put(reqs, r, [input |-> [id |-> id], pc |-> "delete",
                                     position |-> None, ok |-> FALSE, error |-> ""])
            /\ UNCHANGED resp
    /\ UNCHANGED <<db, http, closes>>

\* prisma.position.delete, then return
DeleteCommit(r) ==
    /\ r \in DOMAIN reqs
    /\ reqs[r].pc = "delete"
    /\ LET id == reqs[r].input.id IN
       IF id \notin DOMAIN positions
       THEN /\ reqs' = [reqs EXCEPT ![r] = Finished(@, FALSE, P2025)]
            /\ resp' = Fail("position.delete", id, P2025)
            /\ UNCHANGED <<positions, transactions>>
       ELSE \E onDelete \in TransactionOnDelete :
            IF TransactionsOf(id) # {} /\ onDelete = "Restrict"
            THEN /\ reqs' = [reqs EXCEPT ![r] = Finished(@, FALSE, P2003)]
                 /\ resp' = Fail("position.delete", id, P2003)
                 /\ UNCHANGED <<positions, transactions>>
            ELSE /\ positions' = Remove(positions, id)
                 /\ transactions' = [t \in DOMAIN transactions \ TransactionsOf(id) |->
                                        transactions[t]]
                 /\ reqs' = [reqs EXCEPT ![r] = Finished(@, TRUE, "")]
                 /\ resp' = Ok("position.delete", 0)
    /\ UNCHANGED <<users, exchanges, stocks, priceHistory, watchlist, nextId>>
    /\ UNCHANGED <<http, closes>>

----------------------------------------------------------------------------
(* transaction.update, one database call at a time *)

\* findUnique when quantity or price is supplied, and the not-found check
UpdateBegin(input) ==
    LET r == Cardinality(DOMAIN reqs) + 1
        recompute == input.quantity # None \/ input.price # None IN
    /\ r <= MaxRequests
    /\ IF recompute /\ input.id \notin DOMAIN transactions
       THEN /\ reqs' = Put(reqs, r, [input |-> input, pc |-> "done", current |-> None,
                                     ok |-> FALSE, error |-> TransactionNotFoundMsg])
            /\ resp' = Fail("transaction.update", input.id, TransactionNotFoundMsg)
       ELSE /\ reqs' = Put(reqs, r, [input |-> input, pc |-> "write",
                                     current |-> IF recompute
                                                 THEN Some(transactions[input.id])
                                                 ELSE None,
                                     ok |-> FALSE, error |-> ""])
            /\ UNCHANGED resp
    /\ UNCHANGED <<db, http, closes>>

\* prisma.transaction.update with the data computed from the row read
UpdateCommit(r) ==
    /\ r \in DOMAIN reqs
    /\ reqs[r].pc = "write"
    /\ LET input == reqs[r].input IN
       IF input.id \notin DOMAIN transactions
       THEN /\ reqs' = [reqs EXCEPT ![r] = Finished(@, FALSE, P2025)]
            /\ resp' = Fail("transaction.update", input.id, P2025)
            /\ UNCHANGED transactions
       ELSE /\ transactions' =
                 [transactions EXCEPT ![input.id] =
                     UpdatedTransaction(@, IF reqs[r].current = None THEN @
                                           ELSE reqs[r].current[1], input)]
            /\ reqs' = [reqs EXCEPT ![r] = Finished(@, TRUE, "")]
            /\ resp' = Ok("transaction.update", input.id)
    /\ UNCHANGED <<users, exchanges, stocks, priceHistory, watchlist, positions, nextId>>
    /\ UNCHANGED <<http, closes>>

----------------------------------------------------------------------------
(* user.getPortfolioSummary *)

\* where: {userId, status: 'CLOSED'}
ClosedPositionsOf(userId) ==
    {p \in DOMAIN positions :
        positions[p].userId = userId /\ positions[p].status = "CLOSED"}

\* rows.reduce((sum, p) => sum + Number(p.realizedPnL || 0), 0)
RECURSIVE ReducePnL(_)
ReducePnL(rows) ==
    IF rows = <<>> THEN 0
    ELSE OrElse(positions[Head(rows)].realizedPnL, 0) + ReducePnL(Tail(rows))

\* quotients are kept exact: a / b + c / d
Zero == [num |-> 0, den |-> 1]
Plus(a, b) == [num |-> a.num * b.den + b.num * a.den, den |-> a.den * b.den]

\* rows.reduce((sum, p) => sum + Number(p.returnPercentage || 0), 0)
RECURSIVE ReduceReturn(_)
ReduceReturn(rows) ==
    IF rows = <<>> THEN Zero
    ELSE Plus(OrElse(positions[Head(rows)].returnPercentage, Zero), ReduceReturn(Tail(rows)))

\* closedPositions.length > 0 ? sum / closedPositions.length : 0
Mean(total, count) ==
    IF count > 0 THEN [num |-> total.num, den |-> total.den * count] ELSE Zero

\* position.stock.symbol, the key of a group
SymbolOf(p) == stocks[positions[p].stockId].symbol

\* the rows of one group, in the order of the rows
RECURSIVE GroupRows(_, _)
GroupRows(rows, symbol) ==
    IF rows = <<>> THEN <<>>
    ELSE IF SymbolOf(Head(rows)) = symbol
    THEN <<Head(rows)>> \o GroupRows(Tail(rows), symbol)
    ELSE GroupRows(Tail(rows), symbol)

\* the keys that {} already answers, through Object.prototype, among the
\* strings CreateStockSchema accepts as a symbol
Inherited == {"toString", "valueOf", "__proto__"}

\* acc[key].positions.push(position) where acc[key] is an inherited member
TypeError == "TypeError"

\* openPositions.reduce((acc, position) => ..., {}): one group per symbol
PositionsByStock(rows) ==
    {[symbol |-> symbol,
      totalQuantity |-> Reduce(GroupRows(rows, symbol), "quantity"),
      totalInvested |-> Reduce(GroupRows(rows, symbol), "capitalAllocated"),
      positions |-> GroupRows(rows, symbol)] :
        symbol \in {SymbolOf(rows[i]) : i \in 1..Len(rows)}}

\* openPositions.slice(0, 5)
RecentCount == 5

GetPortfolioSummary(userId) ==
    /\ \E open \in Orderings(OpenPositionsOf(userId), NoOrder) :
       \E closed \in Orderings(ClosedPositionsOf(userId), NoOrder) :
          IF \E i \in 1..Len(open) : SymbolOf(open[i]) \in Inherited
          THEN resp' = Fail("user.getPortfolioSummary", 0, TypeError)
          ELSE resp' = OkData("user.getPortfolioSummary",
                    [user |-> FindUnique(users, userId),
                     summary |->
                        [totalOpenPositions |-> Len(open),
                         totalInvested |-> Reduce(open, "capitalAllocated"),
                         totalValue |-> Reduce(open, "totalBuyValue"),
                         totalRealizedPnL |-> ReducePnL(closed),
                         avgReturn |-> Mean(ReduceReturn(closed), Len(closed)),
                         totalClosedPositions |-> Len(closed)],
                     openPositions |-> PositionsByStock(open),
                     recentPositions |-> TakeSkip(open, RecentCount, 0)])
    /\ Unchanged

----------------------------------------------------------------------------
(* Requests handled one at a time: the position and transaction procedures *)

LifecycleCreateInputs == {i \in CreateInputsOf({1}, {1}, {10}, {5}) : i.openDate = 1}
LifecycleCloseInputs == CloseInputsOf({120}, {3})
LifecycleTxInputs == TransactionInputs({1}, {"SELL"}, {10}, {120})
LifecycleTxUpdates == TransactionUpdateInputs({1}, {}, {})
LifecycleUpdates == UpdateInputs(StopLossValues, {})

Next ==
    \/ UserCreate("a@x.io")
    \/ ExchangeCreate("NYSE")
    \/ StockCreate("AAA", 1)
    \/ \E input \in LifecycleCreateInputs : PositionCreate(input)
    \/ \E input \in LifecycleCloseInputs : PositionClose(input)
    \/ \E input \in LifecycleUpdates : PositionUpdate(input)
    \/ \E id \in PositionIds : PositionDelete(id)
    \/ \E input \in LifecycleTxInputs : TransactionCreate(input)
    \/ \E input \in LifecycleTxUpdates : TransactionUpdate(input)
    \/ \E id \in TransactionIds : TransactionDelete(id)
    \/ \E a \in LifecycleTxInputs : TransactionCreateBulk(<<a, a>>)

Spec == Init /\ [][Next]_vars

----------------------------------------------------------------------------
(* Opening and closing positions, with a wider choice of amounts *)

OpenCloseCreateInputs == CreateInputsOf({1}, {1}, Quantities, BuyFeeValues)

NextOpenClose ==
    \/ UserCreate("a@x.io")
    \/ ExchangeCreate("NYSE")
    \/ StockCreate("AAA", 1)
    \/ \E input \in OpenCloseCreateInputs : PositionCreate(input)
    \/ \E input \in CloseInputs : PositionClose(input)

SpecOpenClose == Init /\ [][NextOpenClose]_vars

----------------------------------------------------------------------------
(* Creating and deleting entities, requests handled one at a time *)

DeleteCreateInputs ==
    {i \in CreateInputsOf(UserIds, {1}, {10}, {5}) : i.openDate = 1}
DeleteWatchlistInputs ==
    {i \in WatchlistInputs : i.targetPrice = None /\ i.userId = 1 /\ i.stockId = 1}
DeletePriceInputs == PriceHistoryInputsOf({1}, {1}, {100}, {None})

NextDelete ==
    \/ \E email \in Emails : UserCreate(email)
    \/ ExchangeCreate("NYSE")
    \/ StockCreate("AAA", 1)
    \/ \E input \in DeleteCreateInputs : PositionCreate(input)
    \/ \E input \in DeletePriceInputs : AddPriceHistory(input)
    \/ \E input \in DeleteWatchlistInputs : WatchlistAdd(input)
    \/ \E id \in TransactionIds : TransactionDelete(id)
    \/ \E id \in PositionIds : PositionDelete(id)
    \/ \E id \in UserIds : UserDelete(id)
    \/ \E id \in ExchangeIds : ExchangeDelete(id)
    \/ \E id \in StockIds : StockDelete(id)

SpecDelete == Init /\ [][NextDelete]_vars

----------------------------------------------------------------------------
(* The REST routes of users and exchanges, requests handled one at a time; *)
(* stocks, positions and watchlist rows come from the tRPC procedures      *)

RestCreateInputs == {i \in CreateInputsOf({1}, {1}, {10}, {5}) : i.openDate = 1}
RestUpdateUserBodies == {b \in UpdateUserBodies : b.email = None \/ b.name = None}
RestWatchlistInputs ==
    {i \in WatchlistInputs : i.targetPrice = None /\ i.userId = 2 /\ i.stockId = 1}

NextRest ==
    \/ \E body \in CreateUserBodies : RestPostUser(body)
    \/ \E param \in PathParams(UserIds), body \in RestUpdateUserBodies : RestPutUser(param, body)
    \/ \E param \in PathParams(UserIds) : RestDeleteUser(param)
    \/ \E body \in CreateExchangeBodies : RestPostExchange(body)
    \/ \E param \in PathParams(ExchangeIds), body \in UpdateExchangeBodies :
          RestPutExchange(param, body)
    \/ \E param \in PathParams(ExchangeIds) : RestDeleteExchange(param)
    \/ StockCreate("AAA", 1)
    \/ \E input \in RestCreateInputs : PositionCreate(input)
    \/ \E input \in RestWatchlistInputs : WatchlistAdd(input)

SpecRest == Init /\ [][NextRest]_vars

----------------------------------------------------------------------------
(* Interleaved position.close requests *)

ConcurrentCloseInputs == CloseInputsOf(ExitPrices, {3})

NextConcurrent ==
    \/ UserCreate("a@x.io")
    \/ ExchangeCreate("NYSE")
    \/ StockCreate("AAA", 1)
    \/ \E input \in LifecycleCreateInputs : PositionCreate(input)
    \/ \E input \in ConcurrentCloseInputs : CloseBegin(input)
    \/ \E r \in RequestIds : CloseUpdate(r)
    \/ \E r \in RequestIds : CloseInsert(r)

SpecConcurrent == Init /\ [][NextConcurrent]_vars

----------------------------------------------------------------------------
(* The paginated lists over a database that the creates fill *)

ListCreateInputs == {i \in CreateInputsOf({1}, {1}, {10}, {5}) : i.openDate = 1}
ListWatchlistInputs ==
    {i \in WatchlistInputs : i.targetPrice = None /\ i.stockId = 1 /\ i.userId = 1}
ListPositionInputs == GetPositionsInputs({1}, {}, {}, Limits, {0, 1})
ListTransactionInputs == GetTransactionsInputs({1}, {}, {}, {}, {1}, {0, 1})
ListWatchlistQueries == [userId : {1}, limit : {1}, offset : {0, 1}]
ListPageInputs == [limit : {1}, offset : {0, 1}]
ListStockInputs == [exchangeId : {None, Some(1)}, limit : {1}, offset : {1}]
ListUsersQueries == [limit : {None, Some(0), Some(1)}, offset : {None, Some(1)}]

NextList ==
    \/ \E email \in Emails : UserCreate(email)
    \/ ExchangeCreate("NYSE")
    \/ StockCreate("AAA", 1)
    \/ \E input \in ListCreateInputs : PositionCreate(input)
    \/ \E input \in ListWatchlistInputs : WatchlistAdd(input)
    \/ \E input \in ListPositionInputs : PositionList(input)
    \/ \E input \in ListTransactionInputs : TransactionList(input)
    \/ \E input \in ListWatchlistQueries : WatchlistList(input)
    \/ \E input \in ListPageInputs : UserList(input)
    \/ \E input \in ListStockInputs : StockList(input)
    \/ \E query \in ListUsersQueries : RestGetUsers(query)

SpecList == Init /\ [][NextList]_vars

----------------------------------------------------------------------------
(* The watchlist and the price history, requests handled one at a time *)

WatchWatchlistInputs == [userId : {1}, stockId : {1, 2}, targetPrice : Optional(TargetPrices)]
WatchPriceInputs == PriceHistoryInputsOf({1}, PriceDates, {100, 110}, {None})
WatchBulkAddInputs == BulkAddInputs({1}, {1, 2})

NextWatch ==
    \/ UserCreate("a@x.io")
    \/ ExchangeCreate("NYSE")
    \/ StockCreate("AAA", 1)
    \/ \E input \in WatchPriceInputs : AddPriceHistory(input)
    \/ \E input \in WatchWatchlistInputs : WatchlistAdd(input)
    \/ \E input \in WatchBulkAddInputs : WatchlistBulkAdd(input)
    \/ WatchlistGetPriceAlerts(1)

SpecWatch == Init /\ [][NextWatch]_vars

----------------------------------------------------------------------------
(* Creating a row on either surface, then fetching it by its id *)

RoundTripCreateInputs == {i \in CreateInputsOf({1}, {1}, {10}, {5}) : i.openDate = 1}
RoundTripTxInputs == {i \in TransactionInputs({1}, {"SELL"}, {5}, {4}) : i.date = 2}
RoundTripWatchlistInputs == [userId : {1}, stockId : {1}, targetPrice : Optional(TargetPrices)]

RoundTripUserBodies == [email : {"b@x.io", "not-an-email"}]

NextRoundTrip ==
    \/ UserCreate("a@x.io")
    \/ \E body \in RoundTripUserBodies : RestPostUser(body)
    \/ \E code \in Codes : ExchangeCreate(code)
    \/ \E body \in CreateExchangeBodies : RestPostExchange(body)
    \/ StockCreate("AAA", 1)
    \/ \E input \in RoundTripCreateInputs : PositionCreate(input)
    \/ \E input \in RoundTripTxInputs : TransactionCreate(input)
    \/ \E input \in RoundTripWatchlistInputs : WatchlistAdd(input)
    \/ UserGetById(1)
    \/ ExchangeGetById(1)
    \/ StockGetById(1)
    \/ PositionGetById(1)
    \/ \E id \in {1, 2} : TransactionGetById(id)
    \/ WatchlistGetById(1)
    \/ \E param \in PathParams({1}) : RestGetUser(param)
    \/ \E param \in PathParams({1}) : RestGetExchange(param)

SpecRoundTrip == Init /\ [][NextRoundTrip]_vars

----------------------------------------------------------------------------
(* Deleting transactions of open and closed positions *)

TxDeleteCreateInputs == {i \in CreateInputsOf({1}, {1}, {10}, {5}) : i.openDate = 1}
TxDeleteCloseInputs == CloseInputsOf({120}, {3})
TxDeleteTxInputs == TransactionInputs({1}, {"SELL"}, {5}, {4})

NextTxDelete ==
    \/ UserCreate("a@x.io")
    \/ ExchangeCreate("NYSE")
    \/ StockCreate("AAA", 1)
    \/ \E input \in TxDeleteCreateInputs : PositionCreate(input)
    \/ \E input \in TxDeleteCloseInputs : PositionClose(input)
    \/ \E input \in TxDeleteTxInputs : TransactionCreate(input)
    \/ \E id \in TransactionIds : TransactionDelete(id)

SpecTxDelete == Init /\ [][NextTxDelete]_vars

----------------------------------------------------------------------------
(* Updating open and closed positions *)

PosUpdateCreateInputs == {i \in CreateInputsOf({1}, {1}, {10}, {5}) : i.openDate = 1}
PosUpdateCloseInputs == CloseInputsOf({120}, {3})
PosUpdateInputs == UpdateInputs({80, 90}, {"n"})

NextPosUpdate ==
    \/ UserCreate("a@x.io")
    \/ ExchangeCreate("NYSE")
    \/ StockCreate("AAA", 1)
    \/ \E input \in PosUpdateCreateInputs : PositionCreate(input)
    \/ \E input \in PosUpdateCloseInputs : PositionClose(input)
    \/ \E input \in PosUpdateInputs : PositionUpdate(input)

SpecPosUpdate == Init /\ [][NextPosUpdate]_vars

----------------------------------------------------------------------------
(* Creating and updating transactions *)

TxUpdateCreateInputs == {i \in CreateInputsOf({1}, {1}, {10}, {5}) : i.openDate = 1}
TxUpdateTxInputs == TransactionInputs({1}, {"SELL"}, {5}, {4})
TxUpdateInputs == TransactionUpdateInputs({3}, {7}, {})

NextTxUpdate ==
    \/ UserCreate("a@x.io")
    \/ ExchangeCreate("NYSE")
    \/ StockCreate("AAA", 1)
    \/ \E input \in TxUpdateCreateInputs : PositionCreate(input)
    \/ \E input \in TxUpdateTxInputs : TransactionCreate(input)
    \/ \E input \in TxUpdateTxInputs : TransactionCreateBulk(<<input, input>>)
    \/ \E input \in TxUpdateInputs : TransactionUpdate(input)

SpecTxUpdate == Init /\ [][NextTxUpdate]_vars

----------------------------------------------------------------------------
(* Recording prices, one row or many at a time *)

PriceRowInputs == PriceHistoryInputsOf({1}, PriceDates, PriceCloses, {None, Some(7)})
PriceBulkInputs ==
    BulkPriceInputs({1}, [date : PriceDates, close : {110}, volume : {None, Some(9)}])

NextPrice ==
    \/ ExchangeCreate("NYSE")
    \/ StockCreate("AAA", 1)
    \/ \E input \in PriceRowInputs : AddPriceHistory(input)
    \/ \E input \in PriceBulkInputs : AddBulkPriceHistory(input)

SpecPrice == Init /\ [][NextPrice]_vars

----------------------------------------------------------------------------
(* Exchanges created on either surface and looked up by code *)

NextCode ==
    \/ \E code \in Codes : ExchangeCreate(code)
    \/ \E body \in CreateExchangeBodies : RestPostExchange(body)
    \/ \E code \in Codes : ExchangeGetByCode(code)
    \/ \E code \in Codes : RestGetExchangeByCode(code)
    \/ ExchangeGetById(1)
    \/ \E param \in PathParams({1}) : RestGetExchange(param)
    \/ \E id \in ExchangeIds : ExchangeDelete(id)

SpecCode == Init /\ [][NextCode]_vars

----------------------------------------------------------------------------
(* The summaries of a user's positions *)

SummaryCreateInputs ==
    {i \in CreateInputsOf({1, 2}, {1}, {10, 20}, {5}) : i.openDate = 1 /\ i.entryPrice = 100}
SummaryCloseInputs == CloseInputsOf({120}, {3})

NextSummary ==
    \/ \E email \in Emails : UserCreate(email)
    \/ ExchangeCreate("NYSE")
    \/ StockCreate("AAA", 1)
    \/ \E input \in SummaryCreateInputs : PositionCreate(input)
    \/ \E input \in SummaryCloseInputs : PositionClose(input)
    \/ \E userId \in {1, 2} : OpenSummary(userId)

SpecSummary == Init /\ [][NextSummary]_vars

----------------------------------------------------------------------------
(* Interleaved position.create, position.close and position.delete requests, *)
(* with transaction.create running between their database calls             *)

RaceCreateInputs == {i \in CreateInputsOf({1}, {1}, {10}, {5}) : i.openDate = 1}
RaceCloseInputs == CloseInputsOf({120}, {3})
RaceTxInputs == TransactionInputs({1}, {"SELL"}, {5}, {4})

NextRace ==
    \/ UserCreate("a@x.io")
    \/ ExchangeCreate("NYSE")
    \/ StockCreate("AAA", 1)
    \/ \E input \in RaceCreateInputs : CreateBegin(input)
    \/ \E r \in RequestIds : CreateInsert(r)
    \/ \E r \in RequestIds : CreateInsertFails(r)
    \/ \E input \in RaceCloseInputs : CloseBegin(input)
    \/ \E r \in RequestIds : CloseUpdate(r)
    \/ \E r \in RequestIds : CloseInsert(r)
    \/ \E input \in RaceTxInputs : TransactionCreate(input)
    \/ \E id \in PositionIds : DeleteBegin(id)
    \/ \E r \in RequestIds : DeleteCommit(r)

SpecRace == Init /\ [][NextRace]_vars

----------------------------------------------------------------------------
(* Interleaved transaction.update requests *)

TxRaceCreateInputs == {i \in CreateInputsOf({1}, {1}, {10}, {5}) : i.openDate = 1}
TxRaceUpdates == {i \in TransactionUpdateInputs({3}, {7}, {}) : i.id = 1}

NextTxRace ==
    \/ UserCreate("a@x.io")
    \/ ExchangeCreate("NYSE")
    \/ StockCreate("AAA", 1)
    \/ \E input \in TxRaceCreateInputs : PositionCreate(input)
    \/ \E id \in {1} : TransactionDelete(id)
    \/ \E input \in TxRaceUpdates : UpdateBegin(input)
    \/ \E r \in RequestIds : UpdateCommit(r)

SpecTxRace == Init /\ [][NextTxRace]_vars

----------------------------------------------------------------------------
(* The portfolio of a user with positions in two stocks *)

PortfolioCreateInputs ==
    {i \in CreateInputsOf({1, 2}, {1, 2}, {10, 20}, {5}) :
        /\ i.openDate = 1
        /\ i.userId = 2 => i.stockId = 1 /\ i.quantity = 10}
PortfolioCloseInputs == CloseInputsOf({90, 120}, {3})

NextPortfolio ==
    \/ \E email \in Emails : UserCreate(email)
    \/ ExchangeCreate("NYSE")
    \/ \E symbol \in {"AAA", "toString"} : StockCreate(symbol, 1)
    \/ \E input \in PortfolioCreateInputs : PositionCreate(input)
    \/ \E input \in PortfolioCloseInputs : PositionClose(input)
    \/ GetPortfolioSummary(1)

SpecPortfolio == Init /\ [][NextPortfolio]_vars

----------------------------------------------------------------------------
(* Watchlist rows and price history of stocks that are deleted *)

WatchedCreateInputs ==
    {i \in CreateInputsOf({1}, {1}, {10}, {5}) : i.openDate = 1}
WatchedPriceInputs == PriceHistoryInputsOf({1, 2}, {1}, {100}, {None})
WatchedWatchlistInputs == [userId : {1}, stockId : {1, 2}, targetPrice : {None}]
WatchedBulkAddInputs == BulkAddInputs({1}, {1, 2})

NextWatched ==
    \/ UserCreate("a@x.io")
    \/ ExchangeCreate("NYSE")
    \/ \E symbol \in {"AAA", "BBB"} : StockCreate(symbol, 1)
    \/ \E input \in WatchedCreateInputs : PositionCreate(input)
    \/ \E id \in {1} : PositionDelete(id)
    \/ \E id \in {1} : TransactionDelete(id)
    \/ \E input \in WatchedPriceInputs : AddPriceHistory(input)
    \/ \E input \in WatchedWatchlistInputs : WatchlistAdd(input)
    \/ \E input \in WatchedBulkAddInputs : WatchlistBulkAdd(input)
    \/ \E id \in {1, 2} : WatchlistRemove(id)
    \/ \E id \in {1, 2} : StockDelete(id)

SpecWatched == Init /\ [][NextWatched]_vars

----------------------------------------------------------------------------
(* The status of a position and the columns that go with it *)

StatusCreateInputs == {i \in CreateInputsOf({1}, {1}, {10}, {5}) : i.openDate = 1}
StatusCloseInputs == CloseInputsOf({120}, {3})
StatusUpdates == {i \in UpdateInputs({80}, {}) : i.stopLossPrice # None}
StatusTxInputs == TransactionInputs({1}, {"SELL"}, {10}, {120})
StatusTxUpdates == {i \in TransactionUpdateInputs({3}, {}, {}) : i.id = 1}
StatusListInputs == GetPositionsInputs({1}, PositionStatus, {}, {2}, {0})

NextStatus ==
    \/ UserCreate("a@x.io")
    \/ ExchangeCreate("NYSE")
    \/ StockCreate("AAA", 1)
    \/ \E input \in StatusCreateInputs : PositionCreate(input)
    \/ \E input \in StatusCloseInputs : PositionClose(input)
    \/ \E input \in StatusUpdates : PositionUpdate(input)
    \/ \E id \in PositionIds : PositionDelete(id)
    \/ \E input \in StatusTxInputs : TransactionCreate(input)
    \/ \E input \in StatusTxUpdates : TransactionUpdate(input)
    \/ \E id \in {1, 2} : TransactionDelete(id)
    \/ \E input \in StatusListInputs : PositionList(input)

SpecStatus == Init /\ [][NextStatus]_vars

----------------------------------------------------------------------------
(* Properties of the position lifecycle, requests handled one at a time *)

\* C1: for every input position.create accepts, the completed call leaves a
\* new position with status OPEN, totalBuyValue = quantity * entryPrice and
\* capitalAllocated = quantity * entryPrice + buyFees, and exactly one
\* transaction for it: BUY, date = openDate, quantity, price = entryPrice,
\* totalValue = totalBuyValue, fees = buyFees.
C1_CreateOpensWithOneBuy ==
    [][\A input \in CreateInputs :
        (ValidCreateInput(input) /\ PositionCreate(input) /\ resp'.ok) =>
            LET id == resp'.id IN
            /\ id \notin DOMAIN positions
            /\ DOMAIN positions' = DOMAIN positions \cup {id}
            /\ positions'[id].status = "OPEN"
            /\ positions'[id].totalBuyValue = input.quantity * input.entryPrice
            /\ positions'[id].capitalAllocated =
                   input.quantity * input.entryPrice + input.buyFees
            /\ \E t \in DOMAIN transactions' :
                  /\ {x \in DOMAIN transactions' : transactions'[x].positionId = id} = {t}
                  /\ transactions'[t].type = "BUY"
                  /\ transactions'[t].date = input.openDate
                  /\ transactions'[t].quantity = input.quantity
                  /\ transactions'[t].price = input.entryPrice
                  /\ transactions'[t].totalValue = positions'[id].totalBuyValue
                  /\ transactions'[t].fees = input.buyFees]_vars

\* a position.create has just completed with a non-zero fee
C1_Witness ==
    /\ resp.op = "position.create"
    /\ resp.ok
    /\ resp.id \in DOMAIN positions
    /\ positions[resp.id].buyFees > 0
    /\ positions[resp.id].quantity > 1
    /\ Cardinality(TransactionsOf(resp.id)) = 1

\* C2: a position's status changes at most once, from OPEN to CLOSED: at most
\* one position.close succeeds per position, and once CLOSED no operation
\* changes the status or closes it again.
C2_StatusSteps ==
    \A p \in DOMAIN positions :
        /\ (p \in DOMAIN positions' /\ positions'[p].status # positions[p].status) =>
              /\ positions[p].status = "OPEN"
              /\ positions'[p].status = "CLOSED"
        /\ (positions[p].status = "CLOSED" /\ p \in DOMAIN positions') =>
              positions'[p].status = "CLOSED"
        /\ positions[p].status = "CLOSED" => closes'[p] = closes[p]

C2_AtMostOneClose == \A p \in PositionIds : closes[p] <= 1

C2_ClosedOnceAndForAll ==
    /\ C2_AtMostOneClose
    /\ [][C2_AtMostOneClose' /\ C2_StatusSteps]_vars

\* a close of a CLOSED position has just been refused
C2_Witness ==
    /\ resp.op = "position.close"
    /\ resp.error = NotOpenMsg
    /\ \E p \in DOMAIN positions :
          /\ positions[p].status = "CLOSED"
          /\ closes[p] = 1
          /\ positions[p].stopLossPrice # None

\* C3: a successful close stores totalSellValue = quantity * exitPrice,
\* realizedPnL = totalSellValue - totalBuyValue - buyFees - sellFees and
\* returnPercentage = realizedPnL / capitalAllocated * 100, from the stored
\* row; for quantity 10, entryPrice 100, buyFees 5, exitPrice 120, sellFees 3
\* that is 1200, 192 and 192/1005*100 (about 19.10).
C3_Stored(old, new, input) ==
    /\ new.totalSellValue = Some(old.quantity * input.exitPrice)
    /\ new.realizedPnL =
          Some(old.quantity * input.exitPrice - old.totalBuyValue
                   - old.buyFees - input.sellFees)
    /\ new.returnPercentage # None
    /\ new.returnPercentage[1].den > 0
    /\ new.returnPercentage[1].num * old.capitalAllocated =
          new.realizedPnL[1] * 100 * new.returnPercentage[1].den

C3_Example(old, new, input) ==
    (/\ old.quantity = 10 /\ old.entryPrice = 100 /\ old.buyFees = 5
     /\ input.exitPrice = 120 /\ input.sellFees = 3) =>
        /\ new.totalSellValue = Some(1200)
        /\ new.realizedPnL = Some(192)
        /\ new.returnPercentage[1].num * 1005 = 19200 * new.returnPercentage[1].den
        \* 19.10 <= returnPercentage < 19.11
        /\ 1910 * new.returnPercentage[1].den <= new.returnPercentage[1].num * 100
        /\ new.returnPercentage[1].num * 100 < 1911 * new.returnPercentage[1].den

C3_CloseArithmetic ==
    [][\A input \in CloseInputs :
        (PositionClose(input) /\ resp'.ok) =>
            /\ C3_Stored(positions[input.positionId], positions'[input.positionId], input)
            /\ C3_Example(positions[input.positionId], positions'[input.positionId], input)]_vars

\* the example of the claim has just been closed
C3_Witness ==
    /\ resp.op = "position.close"
    /\ resp.ok
    /\ resp.id \in DOMAIN positions
    /\ LET p == positions[resp.id] IN
       /\ p.quantity = 10 /\ p.entryPrice = 100 /\ p.buyFees = 5
       /\ p.exitPrice = Some(120) /\ p.sellFees = Some(3)
       /\ p.realizedPnL = Some(192)

\* C4: close on an id that matches no position fails with a not-found error,
\* close on a position that is not OPEN fails with a different, invalid-state
\* error; in both cases no row of any table changes.
C4_CloseRefusals ==
    [][\A input \in CloseInputs :
        PositionClose(input) =>
            /\ NotFoundMsg # NotOpenMsg
            /\ input.positionId \notin DOMAIN positions =>
                  /\ ~resp'.ok
                  /\ resp'.error = NotFoundMsg
                  /\ UNCHANGED <<positions, transactions>>
            /\ (input.positionId \in DOMAIN positions
                  /\ positions[input.positionId].status # "OPEN") =>
                  /\ ~resp'.ok
                  /\ resp'.error = NotOpenMsg
                  /\ UNCHANGED <<positions, transactions>>]_vars

\* a close of a CLOSED position has just failed, while another id is unknown
C4_Witness ==
    /\ resp.op = "position.close"
    /\ resp.error = NotOpenMsg
    /\ \E p \in DOMAIN positions : positions[p].status = "CLOSED"
    /\ \E q \in PositionIds : q \notin DOMAIN positions

\* C5: a successful close sets status CLOSED with closeDate, exitPrice and
\* sellFees from the input and adds exactly one transaction to the position:
\* SELL, date = closeDate, quantity = position.quantity, price = exitPrice,
\* totalValue = totalSellValue, fees = sellFees; no other position and no
\* pre-existing transaction changes.
C5_CloseEffect ==
    [][\A input \in CloseInputs :
        (PositionClose(input) /\ resp'.ok) =>
            LET id == input.positionId IN
            /\ positions[id].status = "OPEN"
            /\ DOMAIN positions' = DOMAIN positions
            /\ positions'[id].status = "CLOSED"
            /\ positions'[id].closeDate = Some(input.closeDate)
            /\ positions'[id].exitPrice = Some(input.exitPrice)
            /\ positions'[id].sellFees = Some(input.sellFees)
            /\ \A q \in DOMAIN positions \ {id} : positions'[q] = positions[q]
            /\ \A t \in DOMAIN transactions :
                  t \in DOMAIN transactions' /\ transactions'[t] = transactions[t]
            /\ \E t \in DOMAIN transactions' :
                  /\ DOMAIN transactions' = DOMAIN transactions \cup {t}
                  /\ t \notin DOMAIN transactions
                  /\ transactions'[t].positionId = id
                  /\ transactions'[t].type = "SELL"
                  /\ transactions'[t].date = input.closeDate
                  /\ transactions'[t].quantity = positions[id].quantity
                  /\ transactions'[t].price = input.exitPrice
                  /\ Some(transactions'[t].totalValue) = positions'[id].totalSellValue
                  /\ transactions'[t].fees = input.sellFees]_vars

\* a close has just succeeded while another position and the BUY exist
C5_Witness ==
    /\ resp.op = "position.close"
    /\ resp.ok
    /\ Cardinality(DOMAIN positions) = 2
    /\ \E t \in TransactionsOf(resp.id) : transactions[t].type = "SELL"
    /\ \E t \in TransactionsOf(resp.id) : transactions[t].type = "BUY"

\* C7: quantity, entryPrice, buyFees, totalBuyValue and capitalAllocated keep
\* the values position.create wrote through every later operation, so
\* totalBuyValue = quantity * entryPrice and capitalAllocated = totalBuyValue
\* + buyFees in every reachable state.
C7_Derived ==
    \A p \in DOMAIN positions :
        /\ positions[p].totalBuyValue = positions[p].quantity * positions[p].entryPrice
        /\ positions[p].capitalAllocated = positions[p].totalBuyValue + positions[p].buyFees

C7_Frame ==
    \A p \in DOMAIN positions \cap DOMAIN positions' :
        /\ positions'[p].quantity = positions[p].quantity
        /\ positions'[p].entryPrice = positions[p].entryPrice
        /\ positions'[p].buyFees = positions[p].buyFees
        /\ positions'[p].totalBuyValue = positions[p].totalBuyValue
        /\ positions'[p].capitalAllocated = positions[p].capitalAllocated

C7_CreationValuesFixed == []C7_Derived /\ [][C7_Frame]_vars

\* a position that was closed and updated, whose BUY transaction was updated
C7_Witness ==
    \E p \in DOMAIN positions :
        /\ positions[p].status = "CLOSED"
        /\ positions[p].stopLossPrice # None
        /\ \E t \in TransactionsOf(p) :
              /\ transactions[t].type = "BUY"
              /\ transactions[t].quantity # positions[p].quantity

----------------------------------------------------------------------------
(* Properties of interleaved requests *)

\* the completed close requests on p that had passed the status check
PassedAndDone(p) ==
    {r \in DOMAIN reqs : /\ reqs[r].input.positionId = p
                          /\ reqs[r].position # None
                          /\ reqs[r].pc = "done"}

SellsOf(p) == {t \in TransactionsOf(p) : transactions[t].type = "SELL"}

\* C6: interleaved closes of one OPEN position can both pass the status
\* check; every close that passed it succeeds and appends its own SELL
\* transaction (so two of them leave two SELLs), and each position update
\* overwrites the stored exit fields, so the last one wins.
C6_EveryPassedCloseSells ==
    \A p \in PositionIds :
        /\ \A r \in PassedAndDone(p) : reqs[r].ok
        /\ Cardinality(SellsOf(p)) = Cardinality(PassedAndDone(p))
        /\ closes[p] = Cardinality(PassedAndDone(p))

C6_UpdateOverwrites ==
    \A r \in DOMAIN reqs :
        CloseUpdate(r) =>
            LET input == reqs[r].input IN
            /\ positions'[input.positionId].status = "CLOSED"
            /\ positions'[input.positionId].exitPrice = Some(input.exitPrice)
            /\ positions'[input.positionId].closeDate = Some(input.closeDate)
            /\ positions'[input.positionId].sellFees = Some(input.sellFees)

C6_DoubleClose ==
    /\ C6_EveryPassedCloseSells
    /\ [][C6_EveryPassedCloseSells' /\ C6_UpdateOverwrites]_vars

\* two closes of the same position, at different prices, have both succeeded
C6_Witness ==
    \E r1, r2 \in DOMAIN reqs :
        /\ r1 # r2
        /\ reqs[r1].input.positionId = reqs[r2].input.positionId
        /\ reqs[r1].input.exitPrice # reqs[r2].input.exitPrice
        /\ reqs[r1].position # None /\ reqs[r2].position # None
        /\ reqs[r1].position[1].status = "OPEN" /\ reqs[r2].position[1].status = "OPEN"
        /\ reqs[r1].pc = "done" /\ reqs[r1].ok
        /\ reqs[r2].pc = "done" /\ reqs[r2].ok
        /\ Cardinality(SellsOf(reqs[r1].input.positionId)) = 2
        /\ closes[reqs[r1].input.positionId] = 2
        /\ positions[reqs[r1].input.positionId].exitPrice = Some(reqs[r1].input.exitPrice)

----------------------------------------------------------------------------
(* Properties of the deletes, requests handled one at a time *)

otherTables(kind) ==
    <<IF kind = "user" THEN {} ELSE users,
      IF kind = "exchange" THEN {} ELSE exchanges,
      IF kind = "stock" THEN {} ELSE stocks,
      IF kind = "position" THEN {} ELSE positions,
      priceHistory, watchlist, transactions>>

\* a delete that is refused for its dependent rows removes nothing
C8_Blocked ==
    /\ \A id \in DOMAIN positions :
          (resp'.op = "position.delete" /\ TransactionsOf(id) # {} /\ PositionDelete(id)) =>
              /\ resp'.error = PositionHasTransactionsMsg
              /\ UNCHANGED db
    /\ \A id \in DOMAIN exchanges :
          (resp'.op = "exchange.delete" /\ StocksOfExchange(id) # {} /\ ExchangeDelete(id)) =>
              /\ resp'.error = ExchangeHasStocksMsg
              /\ UNCHANGED db
    /\ \A id \in DOMAIN stocks :
          (resp'.op = "stock.delete" /\ PositionsOfStock(id) # {} /\ StockDelete(id)) =>
              /\ resp'.error = StockHasPositionsMsg
              /\ UNCHANGED db
    /\ \A id \in DOMAIN users :
          (resp'.op = "user.delete" /\ PositionsOfUser(id) # {} /\ UserDelete(id)) =>
              /\ resp'.error = UserHasPositionsMsg
              /\ UNCHANGED db

\* a position or an exchange without dependent rows is removed, alone
C8_RemovesPositionOrExchange ==
    /\ \A id \in DOMAIN positions :
          (resp'.op = "position.delete" /\ TransactionsOf(id) = {} /\ PositionDelete(id)) =>
              /\ resp'.ok
              /\ positions' = Remove(positions, id)
              /\ otherTables("position")' = otherTables("position")
    /\ \A id \in DOMAIN exchanges :
          (resp'.op = "exchange.delete" /\ StocksOfExchange(id) = {} /\ ExchangeDelete(id)) =>
              /\ resp'.ok
              /\ exchanges' = Remove(exchanges, id)
              /\ otherTables("exchange")' = otherTables("exchange")

\* C8 as stated: with no position, a stock or a user is removed, alone
C8_RemovesStockOrUserAlone ==
    /\ \A id \in DOMAIN stocks :
          (resp'.op = "stock.delete" /\ PositionsOfStock(id) = {} /\ StockDelete(id)) =>
              /\ resp'.ok
              /\ stocks' = Remove(stocks, id)
              /\ otherTables("stock")' = otherTables("stock")
    /\ \A id \in DOMAIN users :
          (resp'.op = "user.delete" /\ PositionsOfUser(id) = {} /\ UserDelete(id)) =>
              /\ resp'.ok
              /\ users' = Remove(users, id)
              /\ otherTables("user")' = otherTables("user")

\* C8 (as stated): deleting a position with a transaction, an exchange with
\* a stock, a stock with a position or a user with a position fails and
\* removes nothing; with none of these rows the delete succeeds and removes
\* exactly that entity.
C8_AsStated ==
    [][C8_Blocked /\ C8_RemovesPositionOrExchange /\ C8_RemovesStockOrUserAlone]_vars

\* with no position and no watchlist row, a stock is removed together with
\* its price history and a user is removed alone
C8_RemovesStockOrUser ==
    /\ \A id \in DOMAIN stocks :
          (resp'.op = "stock.delete" /\ PositionsOfStock(id) = {} /\ WatchlistOfStock(id) = {} /\ StockDelete(id)) =>
              /\ resp'.ok
              /\ stocks' = Remove(stocks, id)
              /\ priceHistory' = priceHistory \ PriceHistoryOf(id)
              /\ UNCHANGED <<users, exchanges, positions, watchlist, transactions>>
    /\ \A id \in DOMAIN users :
          (resp'.op = "user.delete" /\ PositionsOfUser(id) = {} /\ WatchlistOfUser(id) = {} /\ UserDelete(id)) =>
              /\ resp'.ok
              /\ users' = Remove(users, id)
              /\ otherTables("user")' = otherTables("user")

\* a position that position.create made is not removed while it has a
\* transaction
C8_PositionOutlivesTransactions ==
    \A id \in DOMAIN positions :
        id \notin DOMAIN positions' => TransactionsOf(id) = {}

\* C8 (amended): the refusals as stated; with none of the named rows, an
\* existing position or exchange is removed alone, an existing stock without
\* watchlist rows is removed together with its price history, and an
\* existing user without watchlist rows is removed alone.
C8_DeleteGuards ==
    [][/\ C8_Blocked
       /\ C8_RemovesPositionOrExchange
       /\ C8_RemovesStockOrUser
       /\ C8_PositionOutlivesTransactions]_vars

\* a stock that had a position has been deleted, after the position and
\* its transaction were
C8_Witness ==
    /\ resp.op = "stock.delete"
    /\ resp.ok
    /\ DOMAIN stocks = {}
    /\ nextId.position > 1
    /\ nextId.transaction > 1
    /\ DOMAIN users # {}

----------------------------------------------------------------------------
(* Properties of the REST surface *)

OneResponse(status) ==
    /\ Len(http'.responses) = 1
    /\ http'.responses[1].status = status

\* a DELETE refused for the entity's dependent rows
RefusedUserDelete(param) ==
    /\ http'.route = "DELETE /api/users/:id"
    /\ param.cuid /\ PositionsOfUser(param.id) # {} /\ RestDeleteUser(param)
RefusedExchangeDelete(param) ==
    /\ http'.route = "DELETE /api/exchanges/:id"
    /\ param.cuid /\ StocksOfExchange(param.id) # {} /\ RestDeleteExchange(param)

\* C9 (as stated): DELETE of a user that owns positions, or of an exchange
\* that owns stocks, is answered 409 and leaves the entity in place.
C9_AsStated ==
    [][/\ \A param \in PathParams(UserIds) :
            RefusedUserDelete(param) => OneResponse(409) /\ UNCHANGED db
       /\ \A param \in PathParams(ExchangeIds) :
            RefusedExchangeDelete(param) => OneResponse(409) /\ UNCHANGED db]_vars

\* C9 (amended): DELETE of a user that owns positions, or of an exchange
\* that owns stocks, is answered 400 with success false and the reason, and
\* leaves the entity, and every other row, in place.
C9_DeleteRefusedWith400 ==
    [][/\ \A param \in PathParams(UserIds) :
            RefusedUserDelete(param) =>
                /\ OneResponse(400)
                /\ http'.responses[1].success = Some(FALSE)
                /\ http'.responses[1].error = UserHasPositionsMsg
                /\ param.id \in DOMAIN users'
                /\ UNCHANGED db
       /\ \A param \in PathParams(ExchangeIds) :
            RefusedExchangeDelete(param) =>
                /\ OneResponse(400)
                /\ http'.responses[1].success = Some(FALSE)
                /\ http'.responses[1].error = ExchangeHasStocksMsg
                /\ param.id \in DOMAIN exchanges'
                /\ UNCHANGED db]_vars

\* the DELETE of an exchange that owns a stock has been refused, after the
\* DELETE of a user that owns a position could have been
C9_Witness ==
    /\ http.route = "DELETE /api/exchanges/:id"
    /\ Len(http.responses) = 1
    /\ http.responses[1].success = Some(FALSE)
    /\ \E e \in DOMAIN exchanges : StocksOfExchange(e) # {}
    /\ \E u \in DOMAIN users : PositionsOfUser(u) # {}

\* the errors an error handler can be given besides Prisma's
OtherErrors == [code : {None}, status : {None, Some(0), Some(400), Some(503)}, name : {"Error"}]

\* C10: a persistence error inside a REST handler yields exactly one
\* response: 409 for a unique-constraint violation, with no new row; 404
\* for a PUT or DELETE on an unknown id, with nothing changed; for any other
\* error its own status, or 500 when it has none.
C10_Step ==
    /\ http'.route = "POST /api/users" =>
          \A body \in CreateUserBodies :
              ((\E u \in DOMAIN users : users[u].email = body.email) /\ RestPostUser(body)) =>
                  OneResponse(409) /\ UNCHANGED db
    /\ http'.route = "POST /api/exchanges" =>
          \A body \in CreateExchangeBodies :
              (/\ body.code # ""
               /\ \E e \in DOMAIN exchanges : exchanges[e].code = ToUpperCase(Trim(body.code))
               /\ RestPostExchange(body)) =>
                  OneResponse(409) /\ UNCHANGED db
    /\ http'.route = "PUT /api/users/:id" =>
          \A param \in PathParams(UserIds), body \in RestUpdateUserBodies :
              /\ (/\ param.cuid
                  /\ body.email = None \/ IsEmail(body.email[1])
                  /\ param.id \notin DOMAIN users
                  /\ RestPutUser(param, body)) =>
                     OneResponse(404) /\ UNCHANGED db
              /\ (/\ param.id \in DOMAIN users
                  /\ body.email # None
                  /\ \E u \in DOMAIN users \ {param.id} : users[u].email = body.email[1]
                  /\ RestPutUser(param, body)) =>
                     OneResponse(409) /\ UNCHANGED db
    /\ http'.route = "PUT /api/exchanges/:id" =>
          \A param \in PathParams(ExchangeIds), body \in UpdateExchangeBodies :
              (param.cuid /\ param.id \notin DOMAIN exchanges /\ RestPutExchange(param, body)) =>
                  OneResponse(404) /\ UNCHANGED db
    /\ http'.route = "DELETE /api/users/:id" =>
          \A param \in PathParams(UserIds) :
              /\ (/\ param.cuid
                  /\ PositionsOfUser(param.id) = {}
                  /\ param.id \notin DOMAIN users
                  /\ RestDeleteUser(param)) =>
                     OneResponse(404) /\ UNCHANGED db
              /\ (/\ param.id \in DOMAIN users
                  /\ PositionsOfUser(param.id) = {}
                  /\ RestDeleteUser(param)
                  /\ param.id \in DOMAIN users') =>
                     OneResponse(500) /\ UNCHANGED db
    /\ http'.route = "DELETE /api/exchanges/:id" =>
          \A param \in PathParams(ExchangeIds) :
              (/\ param.cuid
               /\ StocksOfExchange(param.id) = {}
               /\ param.id \notin DOMAIN exchanges
               /\ RestDeleteExchange(param)) =>
                  OneResponse(404) /\ UNCHANGED db

\* every REST request has one response, and an error that is not Prisma's
\* is answered with its own status, or 500
C10_OneResponse ==
    /\ http.route # "" => Len(http.responses) = 1
    /\ \A err \in OtherErrors :
          ErrorHandler(err).status =
              IF err.status \in {None, Some(0)} THEN 500 ELSE err.status[1]

C10_PersistenceErrors ==
    /\ C10_OneResponse
    /\ [][C10_OneResponse' /\ C10_Step]_vars

\* POST /api/users with a stored email has just been answered 409, with an
\* unknown id already seen
C10_Witness ==
    /\ http.route = "POST /api/users"
    /\ Len(http.responses) = 1
    /\ http.responses[1].status = 409
    /\ DOMAIN users # {}
    /\ nextId.user > Cardinality(DOMAIN users) + 1

----------------------------------------------------------------------------
(* Properties of the queries *)

\* the page holds at most `limit` rows, total counts the matching rows, and
\* hasMore tells whether rows lie beyond the page
PageOf(result, matching, limit, offset) ==
    /\ Len(result.items) <= limit
    /\ \A i \in 1..Len(result.items) : result.items[i] \in matching
    /\ result.total = Cardinality(matching)
    /\ result.hasMore <=> (offset + limit < result.total)

\* C11: every paginated list called with limit L and offset O returns at
\* most L items, total equal to the number of rows matching the filter, and
\* hasMore true exactly when O + L < total.
C11_Pagination ==
    [][/\ (http' = http /\ resp'.op = "position.list") =>
            \A input \in ListPositionInputs :
                PositionList(input) =>
                    PageOf(resp'.data,
                           {p \in DOMAIN positions :
                               /\ positions[p].userId = input.userId
                               /\ input.status # None =>
                                     positions[p].status = input.status[1]},
                           input.limit, input.offset)
       /\ (http' = http /\ resp'.op = "transaction.list") =>
            \A input \in ListTransactionInputs :
                TransactionList(input) =>
                    PageOf(resp'.data,
                           {t \in DOMAIN transactions :
                               input.positionId # None =>
                                   transactions[t].positionId = input.positionId[1]},
                           input.limit, input.offset)
       /\ (http' = http /\ resp'.op = "watchlist.list") =>
            \A input \in ListWatchlistQueries :
                WatchlistList(input) =>
                    PageOf(resp'.data,
                           {w \in DOMAIN watchlist : watchlist[w].userId = input.userId},
                           input.limit, input.offset)
       /\ (http' = http /\ resp'.op = "user.list") =>
            \A input \in ListPageInputs :
                UserList(input) =>
                    PageOf(resp'.data, DOMAIN users, input.limit, input.offset)
       /\ (http' = http /\ resp'.op = "stock.list") =>
            \A input \in ListStockInputs :
                StockList(input) =>
                    PageOf(resp'.data,
                           {s \in DOMAIN stocks :
                               input.exchangeId # None =>
                                   stocks[s].exchangeId = input.exchangeId[1]},
                           input.limit, input.offset)
       /\ (resp' = resp /\ http'.route = "GET /api/users") =>
            \A query \in ListUsersQueries :
                (query.limit # Some(0) /\ RestGetUsers(query)) =>
                    /\ Len(http'.responses) = 1
                    /\ http'.responses[1].status = 200
                    /\ PageOf(http'.responses[1].data, DOMAIN users,
                              IF query.limit = None THEN DefaultLimit ELSE query.limit[1],
                              IF query.offset = None THEN 0 ELSE query.offset[1])]_vars

\* a second page that is the last one: two positions of one user, listed
\* with limit 1 and offset 1
C11_Witness ==
    /\ resp.op = "position.list"
    /\ resp.data.total = 2
    /\ Len(resp.data.items) = 1
    /\ ~resp.data.hasMore
    /\ http.route = "GET /api/users"
    /\ Len(http.responses) = 1
    /\ http.responses[1].status = 200
    /\ http.responses[1].data.hasMore

----------------------------------------------------------------------------
(* Properties of the watchlist *)

\* the stock's price-history row with the greatest date closed at or above
\* the price
LatestCloseReaches(stockId, price) ==
    \E h \in priceHistory :
        /\ h.stockId = stockId
        /\ h.close >= price
        /\ \A g \in priceHistory : g.stockId = stockId => g.date <= h.date

\* C12: getPriceAlerts returns exactly the user's watchlist rows that have a
\* target price; a row is triggered iff the stock has a price-history row
\* and the close of the one with the greatest date is >= targetPrice;
\* triggeredAlerts is exactly the triggered rows returned.
C12_PriceAlerts ==
    [][\A userId \in UserIds :
          (resp'.op = "watchlist.getPriceAlerts" /\ WatchlistGetPriceAlerts(userId)) =>
              LET all == resp'.data.watchlistWithAlerts
                  hit == resp'.data.triggeredAlerts IN
              /\ {all[i].id : i \in 1..Len(all)} =
                    {w \in DOMAIN watchlist :
                        watchlist[w].userId = userId /\ watchlist[w].targetPrice # None}
              /\ \A i, j \in 1..Len(all) : all[i].id = all[j].id => i = j
              /\ \A i \in 1..Len(all) :
                    /\ all[i].targetPrice = watchlist[all[i].id].targetPrice
                    /\ all[i].triggered <=>
                          LatestCloseReaches(all[i].stockId, all[i].targetPrice[1])
              /\ {hit[i] : i \in 1..Len(hit)} = {all[i] : i \in {k \in 1..Len(all) : all[k].triggered}}
              /\ Len(hit) = Cardinality({k \in 1..Len(all) : all[k].triggered})
              /\ \A i \in 1..Len(hit) : hit[i].targetPrice # None]_vars

\* one alert triggered by the latest close although an older close was below
\* the target, one not triggered, and a row without target left out
C12_Witness ==
    /\ resp.op = "watchlist.getPriceAlerts"
    /\ Len(resp.data.watchlistWithAlerts) = 1
    /\ Len(resp.data.triggeredAlerts) = 1
    /\ Cardinality(DOMAIN watchlist) = 2
    /\ \E h \in priceHistory :
          /\ h.stockId = resp.data.triggeredAlerts[1].stockId
          /\ h.close < resp.data.triggeredAlerts[1].targetPrice[1]

\* C13: bulkAdd never fails on a pair already stored or repeated in the
\* input: such pairs are skipped, stored rows are left unchanged, added is
\* the number of rows inserted, and there is at most one row per pair.
C13_OnePerPair ==
    \A v, w \in DOMAIN watchlist :
        (watchlist[v].userId = watchlist[w].userId /\ watchlist[v].stockId = watchlist[w].stockId)
            => v = w

C13_Step ==
    \A input \in WatchBulkAddInputs :
        (/\ resp'.op = "watchlist.bulkAdd"
         /\ input.userId \in DOMAIN users
         /\ \A i \in 1..Len(input.stockIds) : input.stockIds[i] \in DOMAIN stocks
         /\ WatchlistBulkAdd(input)) =>
            /\ resp'.ok
            /\ \A w \in DOMAIN watchlist : w \in DOMAIN watchlist' /\ watchlist'[w] = watchlist[w]
            /\ resp'.data.added = Cardinality(DOMAIN watchlist') - Cardinality(DOMAIN watchlist)
            /\ \A i \in 1..Len(input.stockIds) :
                  \E w \in DOMAIN watchlist' :
                      /\ watchlist'[w].userId = input.userId
                      /\ watchlist'[w].stockId = input.stockIds[i]
            /\ \A w \in DOMAIN watchlist' \ DOMAIN watchlist :
                  /\ watchlist'[w].userId = input.userId
                  /\ \E i \in 1..Len(input.stockIds) : watchlist'[w].stockId = input.stockIds[i]

C13_BulkAddSkips ==
    /\ C13_OnePerPair
    /\ [][C13_OnePerPair' /\ C13_Step]_vars

\* a bulkAdd of a stored pair and a new pair has added one row
C13_Witness ==
    /\ resp.op = "watchlist.bulkAdd"
    /\ resp.ok
    /\ resp.data.added = 1
    /\ Cardinality(DOMAIN watchlist) = 2
    /\ nextId.watchlist = 3

----------------------------------------------------------------------------
(* Properties of a create followed by a fetch by id *)

\* the row carries every member of the input with the input's value
SameFields(row, input) == \A f \in DOMAIN input : row[f] = input[f]

\* a tRPC create stores the values of its input
RpcCreateStores ==
    /\ resp'.op = "user.create" /\ resp'.ok =>
          (UserCreate("a@x.io") => users'[resp'.id].email = "a@x.io")
    /\ resp'.op = "exchange.create" /\ resp'.ok =>
          \A code \in Codes :
              ExchangeCreate(code) => exchanges'[resp'.id].code = code
    /\ resp'.op = "stock.create" /\ resp'.ok =>
          (StockCreate("AAA", 1) =>
              SameFields(stocks'[resp'.id], [symbol |-> "AAA", exchangeId |-> 1]))
    /\ resp'.op = "position.create" /\ resp'.ok =>
          \A input \in RoundTripCreateInputs :
              PositionCreate(input) => SameFields(positions'[resp'.id], input)
    /\ resp'.op = "transaction.create" /\ resp'.ok =>
          \A input \in RoundTripTxInputs :
              TransactionCreate(input) => SameFields(transactions'[resp'.id], input)
    /\ resp'.op = "watchlist.add" /\ resp'.ok =>
          \A input \in RoundTripWatchlistInputs :
              WatchlistAdd(input) => SameFields(watchlist'[resp'.id], input)

\* getById returns the stored row, whatever the entity
RpcFetchReturns ==
    http' = http /\ db' = db /\ resp'.ok =>
        /\ resp'.op = "user.getById" /\ UserGetById(1) => resp'.data = users[1]
        /\ resp'.op = "exchange.getById" /\ ExchangeGetById(1) => resp'.data = exchanges[1]
        /\ resp'.op = "stock.getById" /\ StockGetById(1) => resp'.data = stocks[1]
        /\ resp'.op = "position.getById" /\ PositionGetById(1) => resp'.data = positions[1]
        /\ resp'.op = "transaction.getById" =>
              \A id \in {1, 2} :
                  TransactionGetById(id) => resp'.data = transactions[id]
        /\ resp'.op = "watchlist.getById" /\ WatchlistGetById(1) =>
              resp'.data = watchlist[1]

\* the one response of a REST request that succeeded with `status`
Succeeded(status) ==
    /\ Len(http'.responses) = 1
    /\ http'.responses[1].status = status
    /\ http'.responses[1].success = Some(TRUE)

\* POST /api/users stores the e-mail it is sent; GET /:id returns the stored row
RestUserRoundTrip ==
    /\ http'.route = "POST /api/users" /\ Succeeded(201) =>
          \A body \in RoundTripUserBodies :
              RestPostUser(body) => users'[nextId.user].email = body.email
    /\ http'.route = "GET /api/users/:id" /\ Succeeded(200) =>
          \A param \in PathParams({1}) :
              RestGetUser(param) => http'.responses[1].data = users[param.id]

\* GET /api/exchanges/:id returns the stored row
RestExchangeFetchReturns ==
    http'.route = "GET /api/exchanges/:id" /\ Succeeded(200) =>
        \A param \in PathParams({1}) :
            RestGetExchange(param) => http'.responses[1].data = exchanges[param.id]

----------------------------------------------------------------------------
(* Properties of the REST envelope *)

\* C15 as the claim states it: every response to a request on the user and
\* exchange routes carries a boolean success member, true exactly when the
\* status is a success status
C15_Envelope ==
    \A i \in 1..Len(http.responses) :
        /\ http.responses[i].success # None
        /\ http.responses[i].success = Some(http.responses[i].status < 400)

----------------------------------------------------------------------------
(* Properties of editing positions and transactions *)

\* C16: transaction.delete of a stored transaction succeeds whatever its type
\* and whatever the status of its position; that transaction alone is removed,
\* the positions and the other transactions staying as they were
C16_DeleteUnguarded ==
    [][resp'.op = "transaction.delete" =>
          \A id \in TransactionIds :
              id \in DOMAIN transactions /\ TransactionDelete(id) =>
                  /\ resp'.ok
                  /\ DOMAIN transactions' = DOMAIN transactions \ {id}
                  /\ \A t \in DOMAIN transactions' : transactions'[t] = transactions[t]
                  /\ positions' = positions]_vars

\* a CLOSED position all of whose transactions, the opening BUY and the SELL,
\* were deleted
C16_Witness ==
    /\ resp.op = "transaction.delete"
    /\ resp.ok
    /\ \E p \in DOMAIN positions :
          /\ positions[p].status = "CLOSED"
          /\ TransactionsOf(p) = {}
    /\ \E p \in DOMAIN positions :
          /\ positions[p].status = "OPEN"
          /\ TransactionsOf(p) = {}

\* the members of a position.update input that can be set
Updatable == {"stopLossPrice", "notes"}

\* C17: position.update sets the members present in its input and nothing
\* else: the other columns of the position, the other positions and every
\* transaction stay as they were, for OPEN and CLOSED positions alike
C17_UpdateFrame ==
    [][resp'.op = "position.update" =>
          \A input \in PosUpdateInputs :
              input.id \in DOMAIN positions /\ PositionUpdate(input) =>
                  /\ resp'.ok
                  /\ DOMAIN positions' = DOMAIN positions
                  /\ \A p \in DOMAIN positions \ {input.id} : positions'[p] = positions[p]
                  /\ \A f \in DOMAIN positions[input.id] :
                        positions'[input.id][f] =
                            IF f \in Updatable /\ input[f] # None
                            THEN input[f]
                            ELSE positions[input.id][f]
                  /\ transactions' = transactions]_vars

\* a CLOSED position whose stop loss was set while its notes were left alone
C17_Witness ==
    /\ resp.op = "position.update"
    /\ resp.ok
    /\ positions[resp.id].status = "CLOSED"
    /\ positions[resp.id].stopLossPrice = Some(90)
    /\ positions[resp.id].notes = None

\* every stored transaction has totalValue = quantity * price
TotalValueConsistent ==
    \A t \in DOMAIN transactions :
        transactions[t].totalValue = transactions[t].quantity * transactions[t].price

C18_Step ==
    resp'.op = "transaction.update" =>
        \A input \in TxUpdateInputs :
            TransactionUpdate(input) =>
                IF input.id \notin DOMAIN transactions
                THEN /\ ~resp'.ok
                     /\ input.quantity # None \/ input.price # None =>
                            resp'.error = TransactionNotFoundMsg
                     /\ db' = db
                ELSE LET old == transactions[input.id]
                         new == transactions'[input.id]
                         q == IF input.quantity = None THEN old.quantity
                              ELSE input.quantity[1]
                         p == IF input.price = None THEN old.price ELSE input.price[1]
                     IN /\ resp'.ok
                        /\ new.quantity = q
                        /\ new.price = p
                        /\ new.totalValue =
                              IF input.quantity = None /\ input.price = None
                              THEN old.totalValue ELSE q * p

\* C18: transaction.update stores totalValue = q * p from the supplied or the
\* stored quantity and price, fails changing nothing on an unknown id, and
\* leaves quantity, price and totalValue alone when given neither; after any
\* sequence of create, createBulk and update, totalValue = quantity * price
C18_TotalValue ==
    TotalValueConsistent /\ [][TotalValueConsistent' /\ C18_Step]_vars

\* a transaction whose price alone was updated, its quantity being the stored one
C18_Witness ==
    /\ resp.op = "transaction.update"
    /\ resp.ok
    /\ transactions[resp.id].price = 7
    /\ transactions[resp.id].quantity = 5
    /\ transactions[resp.id].totalValue = 35

----------------------------------------------------------------------------
(* Properties of the price history *)

\* at most one row per (stockId, date)
OnePerDay ==
    \A a, b \in priceHistory : a.stockId = b.stockId /\ a.date = b.date => a = b

\* addPriceHistory on a stored (stockId, date) replaces the row by the input
C19_Upsert ==
    resp'.op = "stock.addPriceHistory" =>
        \A input \in PriceRowInputs :
            /\ \E h \in priceHistory : SameDay(h, input.stockId, input.date)
            /\ AddPriceHistory(input)
            => /\ Cardinality(priceHistory') = Cardinality(priceHistory)
               /\ \E h \in priceHistory' :
                     /\ SameDay(h, input.stockId, input.date)
                     /\ h.close = input.close
                     /\ h.volume = input.volume

\* addBulkPriceHistory keeps the stored rows and returns the number inserted
C19_Bulk ==
    resp'.op = "stock.addBulkPriceHistory" /\ resp'.ok =>
        /\ priceHistory \subseteq priceHistory'
        /\ resp'.data.created = Cardinality(priceHistory') - Cardinality(priceHistory)

\* C19 as the claim states it: at most one price-history row per (stockId,
\* date); addPriceHistory on a stored pair replaces the row's prices and
\* volume by the input's and adds no row; addBulkPriceHistory leaves stored
\* rows unchanged and returns the number of rows it inserted
C19_AsStated ==
    OnePerDay /\ [][OnePerDay' /\ C19_Upsert /\ C19_Bulk]_vars

----------------------------------------------------------------------------
(* Properties of the exchange codes *)

\* every stored exchange has an upper-case code
UppercaseCodes ==
    \A e \in DOMAIN exchanges : exchanges[e].code = ToUpperCase(exchanges[e].code)

\* a stored exchange is found when its code is looked up, on either surface
FoundByCode ==
    \A code \in Codes :
        (\E e \in DOMAIN exchanges : exchanges[e].code = code) =>
            /\ ExchangeGetByCode(code) => resp'.ok /\ resp'.data.code = code
            /\ RestGetExchangeByCode(code) => http'.responses[1].status = 200

\* C20 as the claim states it: every stored exchange has an upper-case code
\* whichever surface created it, so that an exchange created with code c is
\* found by the lookup by code c
C20_AsStated ==
    UppercaseCodes /\ [][UppercaseCodes' /\ FoundByCode]_vars

----------------------------------------------------------------------------
(* Properties of the summaries *)

\* the sum of a column over a set of positions
RECURSIVE Total(_, _)
Total(ids, column) ==
    IF ids = {} THEN 0
    ELSE LET p == CHOOSE q \in ids : TRUE
         IN positions[p][column] + Total(ids \ {p}, column)

\* the user's positions that are open
OpenOf(userId) ==
    {p \in DOMAIN positions :
        positions[p].userId = userId /\ positions[p].status = "OPEN"}

\* C21: position.openSummary counts and sums exactly the user's OPEN
\* positions, lists each of them once, and a closed position contributes
\* nothing
C21_OpenSummary ==
    [][resp'.op = "position.openSummary" =>
          \A userId \in {1, 2} :
              OpenSummary(userId) =>
                  LET s == resp'.data IN
                  /\ s.totalPositions = Cardinality(OpenOf(userId))
                  /\ s.totalInvested = Total(OpenOf(userId), "capitalAllocated")
                  /\ s.totalValue = Total(OpenOf(userId), "totalBuyValue")
                  /\ Len(s.positions) = Cardinality(OpenOf(userId))
                  /\ {s.positions[i].id : i \in 1..Len(s.positions)} = OpenOf(userId)]_vars

\* a summary of one open position of a user who also has a closed one
C21_Witness ==
    /\ resp.op = "position.openSummary"
    /\ resp.data.totalPositions = 1
    /\ resp.data.totalInvested = 1005
    /\ resp.data.totalValue = 1000
    /\ \E p \in DOMAIN positions :
          /\ positions[p].userId = 1
          /\ positions[p].status = "CLOSED"
    /\ resp.data.positions[1].id \in OpenOf(1)

\* the user's positions that are closed
ClosedOf(userId) ==
    {p \in DOMAIN positions :
        positions[p].userId = userId /\ positions[p].status = "CLOSED"}

\* the symbols of the stocks the user holds open positions in
OpenSymbolsOf(userId) ==
    {stocks[positions[p].stockId].symbol : p \in OpenOf(userId)}

\* the user's open positions in the stocks of one symbol
OpenIn(userId, symbol) ==
    {p \in OpenOf(userId) : stocks[positions[p].stockId].symbol = symbol}

\* the sums of realizedPnL and of returnPercentage over closed positions
RECURSIVE TotalPnL(_)
TotalPnL(ids) ==
    IF ids = {} THEN 0
    ELSE LET p == CHOOSE q \in ids : TRUE
         IN positions[p].realizedPnL[1] + TotalPnL(ids \ {p})

RECURSIVE TotalReturn(_)
TotalReturn(ids) ==
    IF ids = {} THEN [num |-> 0, den |-> 1]
    ELSE LET p == CHOOSE q \in ids : TRUE
             r == positions[p].returnPercentage[1]
             rest == TotalReturn(ids \ {p})
         IN [num |-> r.num * rest.den + rest.num * r.den, den |-> r.den * rest.den]

\* C27 as the claim states it: user.getPortfolioSummary reports the counts
\* and sums of the user's OPEN positions, the count of the CLOSED ones, 0 as
\* the average return when none is closed, and one group per symbol of the
\* OPEN positions whose totalQuantity and totalInvested are the sums over
\* the group
C27_AsStated ==
    [][resp'.op = "user.getPortfolioSummary" =>
          (GetPortfolioSummary(1) =>
              /\ resp'.ok
              /\ LET s == resp'.data.summary
                     groups == resp'.data.openPositions IN
                 /\ s.totalOpenPositions = Cardinality(OpenOf(1))
                 /\ s.totalInvested = Total(OpenOf(1), "capitalAllocated")
                 /\ s.totalValue = Total(OpenOf(1), "totalBuyValue")
                 /\ s.totalClosedPositions = Cardinality(ClosedOf(1))
                 /\ s.totalRealizedPnL = TotalPnL(ClosedOf(1))
                 /\ ClosedOf(1) = {} => s.avgReturn.num = 0
                 /\ s.avgReturn.num * TotalReturn(ClosedOf(1)).den * Cardinality(ClosedOf(1)) =
                        TotalReturn(ClosedOf(1)).num * s.avgReturn.den
                 /\ {g.symbol : g \in groups} = OpenSymbolsOf(1)
                 /\ \A g \in groups :
                       /\ g.totalQuantity = Total(OpenIn(1, g.symbol), "quantity")
                       /\ g.totalInvested =
                              Total(OpenIn(1, g.symbol), "capitalAllocated"))]_vars

----------------------------------------------------------------------------
(* Properties of interleaved creates and deletes *)

\* C22 as the claim states it: a position made by position.create never
\* exists without its BUY transaction, whether the insert of the transaction
\* fails or another request runs between the two writes
C22_AsStated ==
    \A p \in DOMAIN positions :
        \E t \in TransactionsOf(p) : transactions[t].type = "BUY"

C24_AsStated ==
    \A t \in DOMAIN transactions :
        transactions[t].totalValue = transactions[t].quantity * transactions[t].price

----------------------------------------------------------------------------
(* Properties relating a position to its transactions *)

\* the SELL transactions of a position
SellTransactionsOf(p) == {t \in TransactionsOf(p) : transactions[t].type = "SELL"}

\* C25 as the claim states it: with requests one at a time, an OPEN position
\* owns no SELL transaction and a CLOSED position owns exactly one, whose
\* quantity, price and fees are the position's quantity, exitPrice and sellFees
C25_AsStated ==
    \A p \in DOMAIN positions :
        IF positions[p].status = "OPEN"
        THEN SellTransactionsOf(p) = {}
        ELSE /\ Cardinality(SellTransactionsOf(p)) = 1
             /\ \A t \in SellTransactionsOf(p) :
                   /\ transactions[t].quantity = positions[p].quantity
                   /\ Some(transactions[t].price) = positions[p].exitPrice
                   /\ Some(transactions[t].fees) = positions[p].sellFees

\* C26 as the claim states it: the position a successful position.close
\* returns carries the transactions as they stand once close has completed,
\* the SELL this close appended beside the opening BUY
C26_AsStated ==
    [][resp'.op = "position.close" /\ resp'.ok =>
          \A input \in CloseInputs :
              PositionClose(input) =>
                  /\ resp'.data.transactions =
                        {t \in DOMAIN transactions' :
                            transactions'[t].positionId = input.positionId}
                  /\ \E t \in resp'.data.transactions : transactions'[t].type = "SELL"]_vars

----------------------------------------------------------------------------
(* Properties of the rows that belong to a stock *)

\* every watchlist row refers to a stock that exists
WatchedStocksExist ==
    \A w \in DOMAIN watchlist : watchlist[w].stockId \in DOMAIN stocks

\* what a stock.delete leaves behind
StockDeleteLeaves ==
    resp'.op = "stock.delete" =>
        \A id \in {1, 2} :
            StockDelete(id) =>
                /\ (id \in DOMAIN stocks /\ resp'.ok) =>
                      /\ id \notin DOMAIN stocks'
                      /\ \A w \in DOMAIN watchlist' : watchlist'[w].stockId # id
                      /\ \A row \in priceHistory' : row.stockId # id
                /\ resp'.error = StockHasPositionsMsg =>
                      /\ stocks' = stocks
                      /\ priceHistory' = priceHistory
                      /\ watchlist' = watchlist

----------------------------------------------------------------------------
(* Properties of the status of a position *)

\* the columns position.close fills in
ClosingFields(p) ==
    <<p.closeDate, p.exitPrice, p.totalSellValue, p.realizedPnL, p.returnPercentage>>

\* closed positions have every closing column, open ones none
ClosingFieldsMatchStatus ==
    \A p \in DOMAIN positions :
        /\ positions[p].status = "CLOSED" =>
              \A i \in 1..5 : ClosingFields(positions[p])[i] # None
        /\ positions[p].status = "OPEN" =>
              \A i \in 1..5 : ClosingFields(positions[p])[i] = None

\* a step that changes a closing column of a stored position is a
\* successful position.close of that position
OnlyCloseWrites ==
    \A p \in DOMAIN positions \cap DOMAIN positions' :
        ClosingFields(positions'[p]) # ClosingFields(positions[p]) =>
            /\ resp'.op = "position.close"
            /\ resp'.ok
            /\ resp'.id = p

\* C29: in every reachable state closeDate, exitPrice, totalSellValue,
\* realizedPnL and returnPercentage are all set on a CLOSED position and all
\* unset on an OPEN one, and only position.close writes them
C29_ClosingFields ==
    ClosingFieldsMatchStatus /\ [][ClosingFieldsMatchStatus' /\ OnlyCloseWrites]_vars

\* a closed position next to an open one that position.update has written
C29_Witness ==
    /\ resp.op = "position.update"
    /\ resp.ok
    /\ \E p \in DOMAIN positions :
          /\ positions[p].status = "CLOSED"
          /\ positions[p].realizedPnL = Some(192)
          /\ positions[p].stopLossPrice # None
    /\ \E p \in DOMAIN positions :
          /\ positions[p].status = "OPEN"
          /\ positions[p].stopLossPrice # None

\* no position is PARTIAL
OpenOrClosed ==
    \A p \in DOMAIN positions : positions[p].status \in {"OPEN", "CLOSED"}

\* position.list with the filter PARTIAL finds nothing
PartialListIsEmpty ==
    resp'.op = "position.list" =>
        \A input \in StatusListInputs :
            (input.status = Some("PARTIAL") /\ PositionList(input)) =>
                /\ resp'.data.items = <<>>
                /\ resp'.data.total = 0
                /\ ~resp'.data.hasMore

\* C30: PARTIAL is a declared status and an accepted filter that nothing
\* writes: every position is OPEN or CLOSED in every reachable state, and
\* position.list filtered by PARTIAL returns no positions and total 0
C30_NeverPartial ==
    OpenOrClosed /\ [][OpenOrClosed' /\ PartialListIsEmpty]_vars

\* the user has an open and a closed position and the list came back empty
C30_Witness ==
    /\ resp.op = "position.list"
    /\ resp.data.total = 0
    /\ resp.data.items = <<>>
    /\ \E p \in DOMAIN positions :
          positions[p].userId = 1 /\ positions[p].status = "OPEN"
    /\ \E p \in DOMAIN positions :
          positions[p].userId = 1 /\ positions[p].status = "CLOSED"
====
